---- MODULE Spec2Model ----
(***************************************************************************)
(* A model of the moltbook-gpt agent loop: the PolicyEngine                *)
(* (src/src/policy/engine.ts), the MemoryStore (src/src/memory/store.ts),  *)
(* the startup sequence of main (src/src/index.ts) and the Scheduler       *)
(* (src/src/scheduler/loop.ts).                                            *)
(*                                                                         *)
(* Conventions                                                             *)
(*  - A string is a sequence of UTF-16 code units (integers).              *)
(*  - An optional field is a sequence of length 0 (absent) or 1 (present). *)
(*    An id is a string; an absent id is None.                             *)
(*  - Time is counted in units of 30 minutes (Date.now() / 1 800 000), so  *)
(*    the hard-wired 60 * 60 * 1000 ms window is OneHour = 2 units.        *)
(*  - Confidence is counted in tenths (0 .. 10).                           *)
(***************************************************************************)
EXTENDS Integers, Sequences, FiniteSets, TLC

VARIABLES
  now,        \* Date.now(), in units of 30 minutes
  policy,     \* the PolicyEngine's private fields
  verdict,    \* SpecPolicy, SpecThread, SpecRepeat: what the last validate call returned
  recorded,   \* history: every recordAction call on this PolicyEngine so far
  lastCall,   \* SpecPolicy, SpecThread, SpecRepeat: the method called last, and on what action
  proc,       \* where main() stands: "down", "boot", "claim", "firstPost", "firstSave", "catchSave", "running"
  disk,       \* the memory file: <<>> (absent) or <<document>>
  mem,        \* MemoryStore.state
  dirty,      \* MemoryStore.dirty
  running,    \* Scheduler.running
  intervalId, \* Scheduler.intervalId is set
  dryRun,     \* SchedulerConfig.dryRun
  ticks,      \* the invocations of Scheduler.tick that have not returned
  hist,       \* history: counters of the calls made so far
  timestamps, \* RateLimiter.timestamps
  pending     \* the calls on the oracle client, the platform client and the rate limiter that have not returned: their locals

None == "none"

(***************************************************************************)
(* Bounds of the model and configuration values                           *)
(***************************************************************************)
\* longest string drawn as content
MaxStrLen == 2
\* last value of the clock
MaxTime == 3
\* most recordAction calls in one process lifetime
MaxRecords == 3

\* most invocations of Scheduler.tick
MaxTicks == 2
\* most process starts
MaxStarts == 2
\* most calls a client makes on a MemoryStore
MaxCalls == 5

\* MemoryStore caps (500, 200, 100 and 100 in the source), scaled down
MAX_LAST_SEEN == 2
MAX_AGENT_IDS == 2
MAX_RECENT_DECISIONS == 1
MAX_RECENT_POST_HASHES == 2

\* SchedulerConfig.postIntervalMinutes (30 minutes)
postInterval == 1

\* PolicyConfig (constructor parameters; the defaults are 5, 3, 0.6, 2000, 10 min)
maxPostsPerHour == 2
maxCommentsPerThread == 2
confidenceThreshold == 6
maxContentLength == 2
cooldownPerSubmolt == 1
\* PolicyEngine.maxRecentHashes (50 in the source), scaled down
maxRecentHashes == 2
\* 60 * 60 * 1000 ms
OneHour == 2

(***************************************************************************)
(* Strings                                                                 *)
(***************************************************************************)
\* 'a', 'A', ' ', '\t'
Alphabet == {97, 65, 32, 9}

Strings(n) == UNION {[1..k -> Alphabet] : k \in 0..n}

\* \s of the regular expression, restricted to code units below 128
IsSpace(c) == c \in {9, 10, 11, 12, 13, 32}

\* String.prototype.toLowerCase on one code unit below 128
LowerChar(c) == IF c \in 65..90 THEN c + 32 ELSE c

toLowerCase(s) == [i \in 1..Len(s) |-> LowerChar(s[i])]

\* s.replace(/\s+/g, " "): every maximal run of whitespace becomes one space
RECURSIVE CollapseSpaces(_)
CollapseSpaces(s) ==
  IF s = <<>> THEN <<>>
  ELSE IF IsSpace(Head(s))
       THEN IF Len(s) > 1 /\ IsSpace(s[2])
            THEN CollapseSpaces(Tail(s))
            ELSE <<32>> \o CollapseSpaces(Tail(s))
       ELSE <<Head(s)>> \o CollapseSpaces(Tail(s))

RECURSIVE TrimStart(_)
TrimStart(s) ==
  IF s # <<>> /\ IsSpace(Head(s)) THEN TrimStart(Tail(s)) ELSE s

RECURSIVE TrimEnd(_)
TrimEnd(s) ==
  IF s # <<>> /\ IsSpace(s[Len(s)]) THEN TrimEnd(SubSeq(s, 1, Len(s) - 1)) ELSE s

\* String.prototype.trim
trim(s) == TrimEnd(TrimStart(s))

NormalizeNoTrim(s) == CollapseSpaces(toLowerCase(s))

\* s.toLowerCase().replace(/\s+/g, " ").trim()
Normalize(s) == trim(CollapseSpaces(toLowerCase(s)))

\* (h * 31 + c) | 0 : the sum wrapped to a signed 32-bit integer, computed on
\* 16-bit halves so that no intermediate value leaves 32 bits
HashStep(h, c) ==
  LET lo    == h % 65536
      hi    == ((h - lo) \div 65536) % 65536
      loSum == lo * 31 + c
      newLo == loSum % 65536
      newHi == (hi * 31 + (loSum \div 65536)) % 65536
  IN  IF newHi >= 32768 THEN (newHi - 65536) * 65536 + newLo
                        ELSE newHi * 65536 + newLo

RECURSIVE HashFrom(_, _)
HashFrom(h, s) == IF s = <<>> THEN h ELSE HashFrom(HashStep(h, Head(s)), Tail(s))

\* PolicyEngine.simpleHash; String(h) is one-to-one on integers, so the
\* fingerprint is kept as the integer
simpleHash(s) == HashFrom(0, Normalize(s))

(***************************************************************************)
(* Decisions                                                               *)
(***************************************************************************)
\* JavaScript truthiness of an optional string
Truthy(opt) == Len(opt) = 1 /\ opt[1] # <<>>

\* JavaScript truthiness of an optional id: neither undefined nor ""
HasId(id) == id \notin {None, ""}

Allowed == [allowed |-> TRUE, reason |-> ""]
Rejected(reason) == [allowed |-> FALSE, reason |-> reason]

(***************************************************************************)
(* PolicyEngine                                                            *)
(***************************************************************************)
NewPolicy ==
  [ postsInLastHour     |-> <<>>,
    commentsByThread    |-> <<>>,
    lastPostBySubmolt   |-> <<>>,
    recentContentHashes |-> <<>> ]

\* Map.get(key) ?? 0
GetOrZero(map, key) == IF key \in DOMAIN map THEN map[key] ELSE 0

\* Map.set(key, value)
MapSet(map, key, value) ==
  [k \in DOMAIN map \cup {key} |-> IF k = key THEN value ELSE map[k]]

isRepetition(p, content) ==
  \E i \in 1..Len(p.recentContentHashes) :
     p.recentContentHashes[i] = simpleHash(content)

addContentHashNoShift(hashes, content) == Append(hashes, simpleHash(content))

addContentHash(hashes, content) ==
  LET pushed == Append(hashes, simpleHash(content))
  IN  IF Len(pushed) > maxRecentHashes THEN Tail(pushed) ELSE pushed

\* this.postsInLastHour.filter((t) => t > oneHourAgo)
FilterNothing(posts, t) == posts

FilterLastHour(posts, t) ==
  LET Keep(x) == x > t - OneHour IN SelectSeq(posts, Keep)

ContentVerdict(p, decision) ==
  IF Truthy(decision.content)
  THEN IF Len(decision.content[1]) > maxContentLength THEN Rejected("content too long")
       ELSE IF isRepetition(p, decision.content[1]) THEN Rejected("repetition detected")
       ELSE Allowed
  ELSE Allowed

\* a cooldown that still holds when exactly cooldownPerSubmolt has passed
PostVerdictInclusive(p, decision, context, t) ==
  IF Len(FilterLastHour(p.postsInLastHour, t)) >= maxPostsPerHour
  THEN Rejected("max posts per hour exceeded")
  ELSE IF ~ContentVerdict(p, decision).allowed THEN ContentVerdict(p, decision)
  ELSE IF /\ HasId(context.submoltId)
          /\ context.submoltId \in DOMAIN p.lastPostBySubmolt
          /\ t - p.lastPostBySubmolt[context.submoltId] <= cooldownPerSubmolt
       THEN Rejected("submolt cooldown")
       ELSE Allowed

PostVerdict(p, decision, context, t) ==
  IF Len(FilterLastHour(p.postsInLastHour, t)) >= maxPostsPerHour
  THEN Rejected("max posts per hour exceeded")
  ELSE IF ~ContentVerdict(p, decision).allowed THEN ContentVerdict(p, decision)
  ELSE IF /\ HasId(context.submoltId)
          /\ context.submoltId \in DOMAIN p.lastPostBySubmolt
          /\ t - p.lastPostBySubmolt[context.submoltId] < cooldownPerSubmolt
       THEN Rejected("submolt cooldown")
       ELSE Allowed

\* context.threadId ?? decision.targetId
CommentThread(decision, context) ==
  IF context.threadId # None THEN context.threadId ELSE decision.targetId

CommentVerdict(p, decision, context) ==
  LET threadId == CommentThread(decision, context)
  IN  IF HasId(threadId) /\ GetOrZero(p.commentsByThread, threadId) >= maxCommentsPerThread
      THEN Rejected("max comments per thread exceeded")
      ELSE ContentVerdict(p, decision)

VoteVerdictTargetOnly(decision) ==
  IF ~HasId(decision.targetId)
  THEN Rejected("vote requires targetId and voteDirection")
  ELSE Allowed

VoteVerdict(decision) ==
  IF ~HasId(decision.targetId) \/ decision.voteDirection = None
  THEN Rejected("vote requires targetId and voteDirection")
  ELSE Allowed

ValidateNoConfidence(p, decision, context, t) ==
  IF decision.action = "ignore" THEN Allowed
  ELSE IF decision.action = "post" THEN PostVerdict(p, decision, context, t)
  ELSE IF decision.action = "comment" THEN CommentVerdict(p, decision, context)
  ELSE VoteVerdict(decision)

ValidateConfidenceFirst(p, decision, context, t) ==
  IF decision.confidence < confidenceThreshold
  THEN Rejected("confidence below threshold")
  ELSE ValidateNoConfidence(p, decision, context, t)

\* PolicyEngine.validate: the verdict it returns
Validate(p, decision, context, t) ==
  IF decision.action = "ignore" THEN Allowed
  ELSE IF decision.confidence < confidenceThreshold
       THEN Rejected("confidence below threshold")
  ELSE IF decision.action = "post" THEN PostVerdict(p, decision, context, t)
  ELSE IF decision.action = "comment" THEN CommentVerdict(p, decision, context)
  ELSE VoteVerdict(decision)

\* PolicyEngine.validate: the fields it leaves behind
ValidateEffect(p, decision, t) ==
  IF decision.action = "ignore" \/ decision.confidence < confidenceThreshold
  THEN p
  ELSE [p EXCEPT !.postsInLastHour = FilterLastHour(@, t)]

\* PolicyEngine.recordAction
recordAction(p, action, context, t) ==
  IF action = "post"
  THEN [p EXCEPT
          !.postsInLastHour = Append(@, t),
          !.lastPostBySubmolt =
             IF HasId(context.submoltId) THEN MapSet(@, context.submoltId, t) ELSE @,
          !.recentContentHashes =
             IF Truthy(context.content) THEN addContentHash(@, context.content[1]) ELSE @]
  ELSE [p EXCEPT
          !.commentsByThread =
             IF HasId(context.threadId)
             THEN MapSet(@, context.threadId, GetOrZero(@, context.threadId) + 1)
             ELSE @,
          !.recentContentHashes =
             IF Truthy(context.content) THEN addContentHash(@, context.content[1]) ELSE @]

(***************************************************************************)
(* MemoryStore                                                             *)
(***************************************************************************)
\* the state a MemoryStore is constructed with
DefaultState ==
  [ lastSeenThreadIds       |-> <<>>,
    lastSeenCommentIds      |-> <<>>,
    agentPostIds            |-> <<>>,
    agentCommentIds         |-> <<>>,
    recentDecisions         |-> <<>>,
    agentId                 |-> None,
    firstPostAttempted      |-> FALSE,
    recentPostContentHashes |-> <<>>,
    lastTickAt              |-> <<>>,
    lastPostAt              |-> <<>> ]

\* Array.prototype.includes
Includes(list, x) == \E i \in 1..Len(list) : list[i] = x

\* list.slice(-cap)
LastN(list, cap) ==
  IF Len(list) > cap THEN SubSeq(list, Len(list) - cap + 1, Len(list)) ELSE list

PushKeepOldest(list, x, cap) == IF Len(list) >= cap THEN list ELSE Append(list, x)

\* push, then slice(-cap) when the cap is exceeded
PushCapped(list, x, cap) == LastN(Append(list, x), cap)

\* The memory file holds a document: a JSON object, given as the record of the
\* keys it has (save() writes every key of the state), or
\* text that JSON.parse rejects
Garbage == [garbage |-> TRUE]
\* the JSON text null
JsonNull == [null |-> TRUE]

\* the error raised inside the try block of load(): readFile rejects with
\* ENOENT when the file is absent, JSON.parse throws a SyntaxError, reading a
\* property of null throws a TypeError
LoadError(file) ==
  IF file = <<>> THEN "ENOENT"
  ELSE IF file[1] = Garbage THEN "SyntaxError"
  ELSE IF file[1] = JsonNull THEN "TypeError"
  ELSE None

RethrowNothing(code) == FALSE

RethrowAll(code) == code # None

\* if (code !== "ENOENT") throw err
Rethrown(code) == code \notin {None, "ENOENT"}

\* data.key ?? value
FieldOr(data, key, value) == IF key \in DOMAIN data THEN data[key] ELSE value

\* the state load() assigns from the parsed document
Parsed(data) ==
  [ lastSeenThreadIds       |-> FieldOr(data, "lastSeenThreadIds", <<>>),
    lastSeenCommentIds      |-> FieldOr(data, "lastSeenCommentIds", <<>>),
    agentPostIds            |-> FieldOr(data, "agentPostIds", <<>>),
    agentCommentIds         |-> FieldOr(data, "agentCommentIds", <<>>),
    recentDecisions         |-> FieldOr(data, "recentDecisions", <<>>),
    agentId                 |-> FieldOr(data, "agentId", None),
    firstPostAttempted      |-> FieldOr(data, "firstPostAttempted", FALSE),
    recentPostContentHashes |-> FieldOr(data, "recentPostContentHashes", <<>>),
    lastTickAt              |-> FieldOr(data, "lastTickAt", <<>>),
    lastPostAt              |-> FieldOr(data, "lastPostAt", <<>>) ]

loadWithoutHashes(state, file) ==
  IF LoadError(file) # None THEN state
  ELSE [Parsed(file[1]) EXCEPT !.recentPostContentHashes = <<>>]

\* MemoryStore.load: the state it leaves; the document replaces the state, an
\* error raised before the assignment leaves it
load(state, file) == IF LoadError(file) # None THEN state ELSE Parsed(file[1])

\* MemoryStore.load rejects
loadThrows(file) == Rethrown(LoadError(file))

isThreadSeen(state, id) == Includes(state.lastSeenThreadIds, id)
isCommentSeen(state, id) == Includes(state.lastSeenCommentIds, id)

\* a seen list that moves a present id to the end
Refresh(list, x) == LET Other(y) == y # x IN Append(SelectSeq(list, Other), x)

markThreadSeenRefresh(state, id) ==
  [state EXCEPT !.lastSeenThreadIds =
     IF Includes(@, id) THEN Refresh(@, id) ELSE PushCapped(@, id, MAX_LAST_SEEN)]

markThreadSeen(state, id) ==
  IF isThreadSeen(state, id) THEN state
  ELSE [state EXCEPT !.lastSeenThreadIds = PushCapped(@, id, MAX_LAST_SEEN)]

markCommentSeen(state, id) ==
  IF isCommentSeen(state, id) THEN state
  ELSE [state EXCEPT !.lastSeenCommentIds = PushCapped(@, id, MAX_LAST_SEEN)]

SaveNothing(state, context, decision, outcome) == state

\* MemoryStore.saveDecision (the time stamp of the entry is left out)
saveDecision(state, context, decision, outcome) ==
  [state EXCEPT !.recentDecisions =
     PushCapped(@, [context |-> context, decision |-> decision, outcome |-> outcome],
                MAX_RECENT_DECISIONS)]

addAgentPostId(state, id) ==
  [state EXCEPT !.agentPostIds = PushCapped(@, id, MAX_AGENT_IDS)]

addAgentCommentId(state, id) ==
  [state EXCEPT !.agentCommentIds = PushCapped(@, id, MAX_AGENT_IDS)]

\* MemoryStore.setAgentId (claimedAt is set and loaded together with agentId)
setAgentId(state, agentId) == [state EXCEPT !.agentId = agentId]

isClaimed(state) == state.agentId # None

\* Boolean(this.state.firstPostAttempted)
hasAttemptedFirstPost(state) == state.firstPostAttempted

setFirstPostAttempted(state) == [state EXCEPT !.firstPostAttempted = TRUE]

\* MemoryStore.contentHash: the hash of t + "\n" + c
contentHash(title, content) ==
  HashFrom(0, Normalize(title) \o <<10>> \o Normalize(content))

addAgentPostContent(state, title, content) ==
  [state EXCEPT !.recentPostContentHashes =
     PushCapped(@, contentHash(title, content), MAX_RECENT_POST_HASHES)]

isDuplicatePost(state, title, content) ==
  Includes(state.recentPostContentHashes, contentHash(title, content))

\* getContext: recentDecisions.slice(-20)
ContextWindow == 20

\* the parts a line of recentAgentMemory is made of
MemoryLine(d) ==
  [ action     |-> d.decision.action,
    ctx        |-> IF HasId(d.context.threadId) THEN <<"thread", d.context.threadId>>
                   ELSE <<"submolt", IF d.context.submoltId # None THEN d.context.submoltId
                                     ELSE "?">>,
    confidence |-> d.decision.confidence,
    outcome    |-> IF d.outcome # None THEN d.outcome ELSE "-" ]

\* MemoryStore.getContext
getContext(state) ==
  LET recent == LastN(state.recentDecisions, ContextWindow)
  IN  [ recentDecisions   |-> recent,
        agentPostIds      |-> state.agentPostIds,
        agentCommentIds   |-> state.agentCommentIds,
        recentAgentMemory |-> [k \in 1..Len(recent) |-> MemoryLine(recent[k])] ]

setLastPostAt(state, t) == [state EXCEPT !.lastPostAt = <<t>>]
setLastTickAt(state, t) == [state EXCEPT !.lastTickAt = <<t>>]

schedVars == <<proc, disk, mem, dirty, running, intervalId, dryRun, ticks, hist>>
vars == <<now, policy, verdict, recorded, lastCall, timestamps, pending,
          proc, disk, mem, dirty, running, intervalId, dryRun, ticks, hist>>

NoHistory ==
  [ starts         |-> 1,      \* process starts
    ticks          |-> 0,      \* calls of Scheduler.tick that got past the running check
    firstPostCalls |-> 0,      \* postPost calls issued by main
    wrote          |-> FALSE,  \* the scheduler has called postPost, postComment or vote
    owed           |-> 0,      \* posts and comments that succeeded, less recordAction calls
    lastCreated    |-> <<>>,   \* time of the last successful post creation
    tooSoon        |-> FALSE,  \* a post was created less than postInterval after another
    everSeen       |-> {},     \* ids that were routed and marked seen
    redecided      |-> {},     \* ids decideAction was invoked for after they were marked seen
    decidedSeen    |-> {},     \* ids decideAction was invoked for while in the seen list
    skipped        |-> {},     \* ids that were presented again and skipped as seen
    calls          |-> <<>>,   \* the calls a client has made on the MemoryStore
    stopped        |-> {},     \* the awaits at which ticks were suspended when stop() was called
    last           |-> [action |-> None, outcome |-> None, passed |-> FALSE] ]

(***************************************************************************)
(* The PolicyEngine on its own: a client that calls validate and           *)
(* recordAction in any order while the clock advances.                     *)
(***************************************************************************)

OptStrings(S) == {<<>>} \cup {<<s>> : s \in S}

DecisionSet(actions, targets, contents, votes, confidences) ==
  [ action        : actions,
    targetId      : targets,
    title         : {<<>>},
    content       : contents,
    voteDirection : votes,
    confidence    : confidences ]

ValidateContexts(submolts, threads) ==
  [ submoltId : submolts, threadId : threads ]

RecordContexts(submolts, threads, contents) ==
  [ submoltId : submolts, threadId : threads, content : contents ]

EngineInit ==
  /\ now = 0
  /\ policy = NewPolicy
  /\ verdict = Allowed
  /\ recorded = <<>>
  /\ lastCall = [op |-> "new", action |-> None]
  /\ timestamps = <<>>
  /\ pending = <<>>

\* no process: the client below holds the only PolicyEngine
PolicyInit ==
  /\ EngineInit
  /\ proc = "down"
  /\ disk = <<>>
  /\ mem = DefaultState
  /\ dirty = FALSE
  /\ running = FALSE
  /\ intervalId = FALSE
  /\ dryRun = FALSE
  /\ ticks = <<>>
  /\ hist = NoHistory

\* Date.now() moves on between two calls
AdvanceTime ==
  /\ now < MaxTime
  /\ now' = now + 1
  /\ lastCall' = [op |-> "wait", action |-> None]
  /\ UNCHANGED <<timestamps, pending>>
  /\ UNCHANGED <<policy, verdict, recorded>>
  /\ UNCHANGED schedVars

\* policy.recordAction(action, context)
PolicyRecord(action, context) ==
  /\ Len(recorded) < MaxRecords
  /\ policy' = recordAction(policy, action, context, now)
  /\ recorded' = Append(recorded, [action |-> action, context |-> context, at |-> now])
  /\ lastCall' = [op |-> "recordAction", action |-> action]
  /\ UNCHANGED <<timestamps, pending>>
  /\ UNCHANGED <<now, verdict>>
  /\ UNCHANGED schedVars

\* policy.validate(decision, context)
PolicyValidate(decision, context) ==
  /\ verdict' = Validate(policy, decision, context, now)
  /\ policy' = ValidateEffect(policy, decision, now)
  /\ lastCall' = [op |-> "validate", action |-> decision.action]
  /\ UNCHANGED <<timestamps, pending>>
  /\ UNCHANGED <<now, recorded>>
  /\ UNCHANGED schedVars

Actions == {"post", "comment", "vote", "ignore"}
Confidences == {0, confidenceThreshold - 1, confidenceThreshold}
TargetIds == {None, "t1", "t2"}
VoteDirections == {None, "up"}

(***************************************************************************)
(* SpecCooldown: posts recorded in two submolts, post decisions validated  *)
(* for either of them and for none.                                        *)
(***************************************************************************)
Submolts == {"s1", "s2"}
CooldownDecisions ==
  DecisionSet({"post"}, {None},
              OptStrings({<<97>>, <<98>>, [i \in 1..(maxContentLength + 1) |-> 97]}),
              {None}, {confidenceThreshold - 1, confidenceThreshold})
CooldownContexts == ValidateContexts({None} \cup Submolts, {"t1"})
CooldownRecords == RecordContexts(Submolts, {None}, {<< <<97>> >>})

CooldownNext ==
  \/ AdvanceTime
  \/ \E c \in CooldownRecords : PolicyRecord("post", c)
  \/ \E d \in CooldownDecisions, c \in CooldownContexts : PolicyValidate(d, c)

SpecCooldown == PolicyInit /\ [][CooldownNext]_vars

(***************************************************************************)
(* SpecPolicy: posts recorded over time, every kind of decision validated. *)
(***************************************************************************)
\* "a", and "aaa...": one character more than maxContentLength
LongContent == [i \in 1..(maxContentLength + 1) |-> 97]
WindowContents == OptStrings({<<97>>, LongContent})

WindowDecisions ==
  DecisionSet(Actions, {None, "t1"}, WindowContents, VoteDirections, Confidences)
WindowContexts == ValidateContexts({None, "s1"}, {"t1"})
WindowRecords == RecordContexts({"s1"}, {None}, {<< <<97>> >>})

PolicyNext ==
  \/ AdvanceTime
  \/ \E c \in WindowRecords : PolicyRecord("post", c)
  \/ \E d \in WindowDecisions, c \in WindowContexts : PolicyValidate(d, c)

SpecPolicy == PolicyInit /\ [][PolicyNext]_vars

(***************************************************************************)
(* SpecThread: comments recorded per thread, comment decisions validated.  *)
(***************************************************************************)
ThreadDecisions ==
  DecisionSet({"comment"}, TargetIds, OptStrings({<<97>>}), {None}, Confidences)
ThreadContexts == ValidateContexts({None, "s1"}, TargetIds)
ThreadRecords == RecordContexts({None}, {"t1", "t2"}, {<<>>})

ThreadNext ==
  \/ AdvanceTime
  \/ \E c \in ThreadRecords : PolicyRecord("comment", c)
  \/ \E d \in ThreadDecisions, c \in ThreadContexts : PolicyValidate(d, c)

SpecThread == PolicyInit /\ [][ThreadNext]_vars

(***************************************************************************)
(* SpecRepeat: contents recorded, then contents validated.                 *)
(***************************************************************************)
\* "a" followed by maxContentLength spaces: longer than any content that
\* validate lets through to the repetition check
PaddedA == <<97>> \o [i \in 1..maxContentLength |-> 32]
\* "a" and spaces, and " "
RepeatRecordContents == {<<PaddedA>>, << <<32>> >>}
RepeatContents == OptStrings(Strings(MaxStrLen))
RepeatDecisions ==
  DecisionSet({"post", "comment"}, {None}, RepeatContents, {None}, {confidenceThreshold})
RepeatContexts == ValidateContexts({None}, {None})
RepeatRecords == RecordContexts({None}, {None}, RepeatRecordContents)

RepeatNext ==
  \/ \E a \in {"post", "comment"}, c \in RepeatRecords : PolicyRecord(a, c)
  \/ \E d \in RepeatDecisions, c \in RepeatContexts : PolicyValidate(d, c)

SpecRepeat == PolicyInit /\ [][RepeatNext]_vars

(***************************************************************************)
(* The MemoryStore on its own: a client that calls its methods in any      *)
(* order.                                                                  *)
(***************************************************************************)
ThreadIds == {"p1", "p2", "p3", "p4"}
CommentIds == {"c1", "c2", "c3"}

\* what the client does not touch
idleVars == <<now, policy, verdict, recorded, lastCall, timestamps, pending, proc, running, intervalId,
              dryRun, ticks>>

\* the client's note of a call: the method, its argument, whether the argument
\* was in the list, and the dirty flag before the call
Call(op, arg, hit) == [op |-> op, arg |-> arg, hit |-> hit, dirty |-> dirty]
Note(call) ==
  /\ Len(hist.calls) < MaxCalls
  /\ hist' = [hist EXCEPT !.calls = Append(@, call)]

\* memory.markThreadSeen(id)
MemMarkThread(id) ==
  /\ Note(Call("markThreadSeen", id, isThreadSeen(mem, id)))
  /\ mem' = markThreadSeen(mem, id)
  /\ dirty' = (dirty \/ ~isThreadSeen(mem, id))
  /\ UNCHANGED disk
  /\ UNCHANGED idleVars

\* memory.markCommentSeen(id)
MemMarkComment(id) ==
  /\ Note(Call("markCommentSeen", id, isCommentSeen(mem, id)))
  /\ mem' = markCommentSeen(mem, id)
  /\ dirty' = (dirty \/ ~isCommentSeen(mem, id))
  /\ UNCHANGED disk
  /\ UNCHANGED idleVars

\* a save() that writes whether or not the state is dirty
MemSaveAlways(ok) ==
  /\ Note(Call("save", None, ok))
  /\ IF ok
     THEN disk' = <<mem>> /\ dirty' = FALSE
     ELSE UNCHANGED <<disk, dirty>>
  /\ UNCHANGED mem
  /\ UNCHANGED idleVars

\* await memory.save(): nothing when not dirty; mkdir or writeFile may throw
MemSave(ok) ==
  /\ Note(Call("save", None, ok))
  /\ IF dirty /\ ok
     THEN disk' = <<mem>> /\ dirty' = FALSE
     ELSE UNCHANGED <<disk, dirty>>
  /\ UNCHANGED mem
  /\ UNCHANGED idleVars

MarksNext ==
  \/ \E id \in ThreadIds : MemMarkThread(id)
  \/ \E id \in CommentIds : MemMarkComment(id)
  \/ \E ok \in BOOLEAN : MemSave(ok)

SpecMarks == PolicyInit /\ [][MarksNext]_vars

\* the posts the client registers: "A" with "a ", "" with "", " " with "\t"
AddedPosts == {<< <<65>>, <<97, 32>> >>, << <<>>, <<>> >>, << <<32>>, <<9>> >>}

\* memory.addAgentPostContent(title, content)
MemAddPostContent(post) ==
  /\ Note(Call("addAgentPostContent", post, FALSE))
  /\ mem' = addAgentPostContent(mem, post[1], post[2])
  /\ dirty' = TRUE
  /\ UNCHANGED disk
  /\ UNCHANGED idleVars

\* memory.setAgentId(agentId)
MemSetAgentId ==
  /\ Note(Call("setAgentId", "agent", isClaimed(mem)))
  /\ mem' = setAgentId(mem, "agent")
  /\ dirty' = TRUE
  /\ UNCHANGED disk
  /\ UNCHANGED idleVars

\* memory.setFirstPostAttempted()
MemSetFirstPostAttempted ==
  /\ Note(Call("setFirstPostAttempted", None, hasAttemptedFirstPost(mem)))
  /\ mem' = setFirstPostAttempted(mem)
  /\ dirty' = TRUE
  /\ UNCHANGED disk
  /\ UNCHANGED idleVars

\* await memory.load()
MemLoad ==
  /\ Note(Call("load", None, disk # <<>>))
  /\ mem' = load(mem, disk)
  /\ UNCHANGED <<dirty, disk>>
  /\ UNCHANGED idleVars

\* new MemoryStore(): the client goes on with a fresh instance on the same file
MemNew ==
  /\ Note(Call("new", None, FALSE))
  /\ mem' = DefaultState
  /\ dirty' = FALSE
  /\ UNCHANGED disk
  /\ UNCHANGED idleVars

\* the outcome of a load() whose try block raised code (None: nothing raised)
LoadOutcome(code) ==
  IF Rethrown(code) THEN "threw" ELSE IF code = None THEN "loaded" ELSE "absent"

\* await memory.load() on the file as it is found; readFile may reject with an
\* error other than ENOENT
MemLoadFile(readError) ==
  /\ Note(Call("load", LoadOutcome(IF readError THEN "EACCES" ELSE LoadError(disk)),
               disk # <<>>))
  /\ mem' = IF readError THEN mem ELSE load(mem, disk)
  /\ UNCHANGED <<dirty, disk>>
  /\ UNCHANGED idleVars

StoreNext ==
  \/ \E post \in AddedPosts : MemAddPostContent(post)
  \/ MemSetAgentId
  \/ MemSetFirstPostAttempted
  \/ \E ok \in BOOLEAN : MemSave(ok)
  \/ MemLoad
  \/ MemNew

SpecStore == PolicyInit /\ [][StoreNext]_vars

\* what the memory file may hold when the client finds it: nothing, text that
\* is no JSON, null, an object without any key of the state, objects with
\* some of the keys
Files ==
  { <<>>, <<Garbage>>, <<JsonNull>>,
    <<[schemaVersion |-> 2]>>,
    <<[agentId |-> "agent", lastSeenThreadIds |-> <<"p1">>]>>,
    <<[firstPostAttempted |-> TRUE, lastTickAt |-> <<1>>, agentPostIds |-> <<"new">>]>> }

FileInit ==
  /\ EngineInit
  /\ proc = "down"
  /\ disk \in Files
  /\ mem = DefaultState
  /\ dirty = FALSE
  /\ running = FALSE
  /\ intervalId = FALSE
  /\ dryRun = FALSE
  /\ ticks = <<>>
  /\ hist = NoHistory

FileNext ==
  \/ \E readError \in BOOLEAN : MemLoadFile(readError)
  \/ MemMarkThread("p2")
  \/ MemSetAgentId
  \/ \E ok \in BOOLEAN : MemSave(ok)
  \/ MemNew

SpecFile == FileInit /\ [][FileNext]_vars

(***************************************************************************)
(* main (index.ts) and the Scheduler (loop.ts)                             *)
(*                                                                         *)
(* An action is one run of the program between two awaits.  A call of      *)
(* Scheduler.tick that has not returned is an element of ticks; its pc     *)
(* names the await it is suspended at.  The configuration is the default   *)
(* one (USE_PERSONALIZED_FEED unset) and the platform lists one submolt.   *)
(***************************************************************************)
\* what the platform and the oracle may answer
Feeds == {<<>>, <<"p1">>, <<"p1", "p2">>, <<"p3", "p1">>}
CommentLists == {<<>>, <<"c1">>, <<"c1", "c2">>}
SubmoltName == "s1"
Decision(action, targetId, content, voteDirection, confidence) ==
  [ action |-> action, targetId |-> targetId, title |-> <<>>, content |-> content,
    voteDirection |-> voteDirection, confidence |-> confidence ]
OracleDecisions ==
  { Decision("post", None, << <<97>> >>, None, confidenceThreshold),
    Decision("post", None, << <<97>> >>, None, confidenceThreshold - 1),
    Decision("post", None, <<>>, None, confidenceThreshold),
    Decision("comment", None, << <<97>> >>, None, confidenceThreshold),
    Decision("comment", "p2", << <<97>> >>, None, confidenceThreshold),
    Decision("vote", "p2", <<>>, "up", confidenceThreshold),
    Decision("vote", None, <<>>, None, confidenceThreshold),
    Decision("ignore", None, <<>>, None, confidenceThreshold),
    Decision("ignore", "p2", << <<97>> >>, "up", 0) }
ProactiveDecisions ==
  { [action |-> "post", title |-> << <<97>> >>, content |-> << <<97>> >>],
    [action |-> "post", title |-> <<>>, content |-> << <<97>> >>],
    [action |-> "skip", title |-> <<>>, content |-> <<>>] }

\* the id the platform gives to what the agent creates
CreatedId == "new"

\* FIRST_POST_SUBMOLT, FIRST_POST_TITLE and FIRST_POST_CONTENT
firstPostSubmolt == "general"
firstPostTitle == <<65>>
firstPostContent == <<97>>

\* ChatGPTClient: the attempts decideAction makes at a reply that parses
MAX_PARSE_RETRIES == 3

\* a reply of the model: nothing, text that is no JSON, or a JSON object whose
\* keys are optional
EmptyReply == [kind |-> "empty"]
TextReply == [kind |-> "text"]
JsonReply(action, targetId, title, content, voteDirection, confidence) ==
  [ kind |-> "json", action |-> action, targetId |-> targetId, title |-> title,
    content |-> content, voteDirection |-> voteDirection, confidence |-> confidence ]

\* DecisionSchema.safeParse(parsed).success
SafeParseSuccess(r) ==
  /\ Len(r.action) = 1 /\ r.action[1] \in {"post", "comment", "vote", "ignore"}
  /\ r.voteDirection # <<>> => r.voteDirection[1] \in {"up", "down"}
  /\ Len(r.confidence) = 1 /\ r.confidence[1] >= 0 /\ r.confidence[1] <= 10

\* DecisionSchema.safeParse(parsed).data
SafeParseData(r) ==
  [ action        |-> r.action[1],
    targetId      |-> IF r.targetId = <<>> THEN None ELSE r.targetId[1],
    title         |-> r.title,
    content       |-> r.content,
    voteDirection |-> IF r.voteDirection = <<>> THEN None ELSE r.voteDirection[1],
    confidence    |-> r.confidence[1] ]

\* what the model may reply to the decision prompt
OracleReplies ==
  { EmptyReply, TextReply,
    JsonReply(<<"post">>, <<>>, <<>>, <<>>, <<>>, <<9>>),
    JsonReply(<<"post">>, <<>>, <<>>, << <<97>> >>, <<>>, <<9>>),
    JsonReply(<<"post">>, <<>>, << <<65>> >>, << <<97>> >>, <<>>, <<9>>),
    JsonReply(<<"comment">>, <<>>, <<>>, << <<97>> >>, <<>>, <<9>>),
    JsonReply(<<"vote">>, <<"p1">>, <<>>, <<>>, <<>>, <<9>>),
    JsonReply(<<"vote">>, <<"p1">>, <<>>, <<>>, <<"up">>, <<9>>),
    JsonReply(<<"vote">>, <<"p1">>, <<>>, <<>>, <<"sideways">>, <<9>>),
    JsonReply(<<"reply">>, <<>>, <<>>, << <<97>> >>, <<>>, <<9>>),
    JsonReply(<<"ignore">>, <<>>, <<>>, <<>>, <<>>, <<0>>),
    JsonReply(<<"ignore">>, <<>>, <<>>, <<>>, <<>>, <<11>>),
    JsonReply(<<"ignore">>, <<>>, <<>>, <<>>, <<>>, <<>>),
    JsonReply(<<>>, <<>>, <<>>, << <<97>> >>, <<>>, <<9>>) }

\* no decision: decideAction threw and decideAndExecute returned null
NoDecision ==
  [ action |-> None, targetId |-> None, title |-> <<>>, content |-> <<>>,
    voteDirection |-> None, confidence |-> 0 ]

\* the locals of a call of Scheduler.tick that has just begun
NewTick ==
  [ pc           |-> "load",
    submolt      |-> SubmoltName,
    searching    |-> FALSE,
    posts        |-> <<>>,
    comments     |-> <<>>,
    item         |-> "post",
    decision     |-> NoDecision,
    attempt      |-> 0,
    newInSubmolt |-> 0,
    totalNew     |-> 0,
    snapshot     |-> <<>> ]

\* the state a run of the scheduler reads and writes
World(i) ==
  [ tick |-> ticks[i], mem |-> mem, dirty |-> dirty, disk |-> disk,
    policy |-> policy, recorded |-> recorded, hist |-> hist ]

Remove(seq, i) == SubSeq(seq, 1, i - 1) \o SubSeq(seq, i + 1, Len(seq))

\* the run ends at the next await (or with the return of tick)
Commit(i, w) ==
  /\ ticks' = IF w.tick.pc = "done" THEN Remove(ticks, i) ELSE [ticks EXCEPT ![i] = w.tick]
  /\ mem' = w.mem
  /\ dirty' = w.dirty
  /\ disk' = w.disk
  /\ policy' = w.policy
  /\ recorded' = w.recorded
  /\ hist' = w.hist
  /\ UNCHANGED <<now, verdict, lastCall, timestamps, pending, proc, running, intervalId, dryRun>>

\* a successful post creation, as the platform sees it
NoteCreated(h, t) ==
  [h EXCEPT !.tooSoon = @ \/ (h.lastCreated # <<>> /\ t - h.lastCreated[1] < postInterval),
            !.lastCreated = <<t>>]

\* llm.decideAction is invoked for the item id
NoteDecide(h, seenList, id) ==
  [h EXCEPT !.redecided = IF id \in h.everSeen THEN @ \cup {id} ELSE @,
            !.decidedSeen = IF Includes(seenList, id) THEN @ \cup {id} ELSE @]

\* tick, end: setLastTickAt, setLastTickSummary, then memory.save() up to its mkdir
EndOfTick(w, t) ==
  [w EXCEPT !.mem = setLastTickAt(@, t), !.dirty = TRUE, !.tick.pc = "mkdir"]

\* tick, after the submolt loop: explore when nothing was new
AfterFeeds(w, t) ==
  IF w.tick.totalNew = 0 THEN [w EXCEPT !.tick.pc = "explore"] ELSE EndOfTick(w, t)

\* a submolt loop that asks for a proactive post whatever the feed held
AfterPostsAlways(w, t) ==
  IF w.tick.searching THEN EndOfTick(w, t) ELSE [w EXCEPT !.tick.pc = "proactive"]

\* after the last post of a list: the proactive post of the submolt loop
AfterPosts(w, t) ==
  IF w.tick.searching THEN EndOfTick(w, t)
  ELSE IF w.tick.newInSubmolt = 0 THEN [w EXCEPT !.tick.pc = "proactive"]
  ELSE AfterFeeds(w, t)

SkipNothing(state, id) == FALSE

\* processPost, first line
SkipPost(state, id) == isThreadSeen(state, id)

\* processPost for the posts that are left, up to the decideAction call
RECURSIVE ProcessPosts(_, _)
ProcessPosts(w, t) ==
  IF w.tick.posts = <<>> THEN AfterPosts(w, t)
  ELSE LET id == Head(w.tick.posts)
       IN  IF SkipPost(w.mem, id)
           THEN ProcessPosts([w EXCEPT !.tick.posts = Tail(@),
                                       !.hist.skipped = @ \cup {id}], t)
           ELSE [w EXCEPT !.tick.totalNew = @ + 1,
                          !.tick.pc = "decide",
                          !.tick.item = "post",
                          !.hist = NoteDecide(@, w.mem.lastSeenThreadIds, id)]

\* processPost, the comment loop, up to the decideAction call
RECURSIVE ProcessComments(_, _)
ProcessComments(w, t) ==
  IF w.tick.comments = <<>> THEN ProcessPosts([w EXCEPT !.tick.posts = Tail(@)], t)
  ELSE LET id == Head(w.tick.comments)
       IN  IF isCommentSeen(w.mem, id)
           THEN ProcessComments([w EXCEPT !.tick.comments = Tail(@),
                                          !.hist.skipped = @ \cup {id}], t)
           ELSE [w EXCEPT !.tick.pc = "decide",
                          !.tick.item = "comment",
                          !.hist = NoteDecide(@, w.mem.lastSeenCommentIds, id)]

\* decision.title ?? (decision.content.slice(0, 80) || "Post")
TitleSlice == 80
DefaultTitle == <<80, 111, 115, 116>>
Slice(s, n) == SubSeq(s, 1, IF Len(s) < n THEN Len(s) ELSE n)
PostTitle(d) ==
  IF d.title # <<>> THEN d.title[1]
  ELSE IF Slice(d.content[1], TitleSlice) # <<>> THEN Slice(d.content[1], TitleSlice)
  ELSE DefaultTitle

\* the post rate limit of the scheduler
RateLimited(state, t) ==
  state.lastPostAt # <<>> /\ t - state.lastPostAt[1] < postInterval

SkipsIgnoreOnly(d, dry) == d.action = "ignore"

\* decideAndExecute: the decisions that are not executed (ignore, dry run)
Skips(d, dry) == d.action = "ignore" \/ dry

\* processPost, after decideAndExecute has returned {d, outcome} (null: NoDecision)
Returned(w, d, outcome, passed, t) ==
  LET postId == Head(w.tick.posts)
      saved  == IF d = NoDecision THEN w.mem
                ELSE saveDecision(w.mem, [submoltId |-> w.tick.submolt, threadId |-> postId],
                                  d, outcome)
      h      == IF d = NoDecision THEN w.hist
                ELSE [w.hist EXCEPT !.last = [action |-> d.action, outcome |-> outcome,
                                              passed |-> passed]]
  IN  IF w.tick.item = "post"
      THEN [w EXCEPT !.mem = markThreadSeen(saved, postId),
                     !.dirty = @ \/ d # NoDecision \/ ~isThreadSeen(w.mem, postId),
                     !.hist = [h EXCEPT !.everSeen = @ \cup {postId}],
                     !.tick.decision = NoDecision,
                     !.tick.pc = "comments"]
      ELSE LET cid == Head(w.tick.comments)
           IN  ProcessComments(
                 [w EXCEPT !.mem = markCommentSeen(saved, cid),
                           !.dirty = @ \/ d # NoDecision \/ ~isCommentSeen(w.mem, cid),
                           !.hist = [h EXCEPT !.everSeen = @ \cup {cid}],
                           !.tick.decision = NoDecision,
                           !.tick.comments = Tail(@)], t)

VetoNothing(v) == FALSE

\* decideAndExecute: if (!verdict.allowed)
Vetoed(v) == ~v.allowed

\* decideAndExecute, from the answer of decideAction to the platform call
Decided(w, d, dry, t) ==
  LET postId == Head(w.tick.posts)
      v      == Validate(w.policy, d, [submoltId |-> w.tick.submolt, threadId |-> postId], t)
      w1     == [w EXCEPT !.policy = ValidateEffect(@, d, t)]
      isPost == d.action = "post" /\ Truthy(d.content)
  IN  IF Vetoed(v) THEN Returned(w1, d, "blocked", FALSE, t)
      ELSE IF isPost /\ isDuplicatePost(w.mem, PostTitle(d), d.content[1])
           THEN Returned(w1, d, "blocked", FALSE, t)
      ELSE IF isPost /\ RateLimited(w.mem, t) THEN Returned(w1, d, "blocked", FALSE, t)
      ELSE IF Skips(d, dry) THEN Returned(w1, d, "skipped", TRUE, t)
      ELSE IF isPost
           THEN [w1 EXCEPT !.tick.pc = "execute", !.tick.decision = d,
                           !.hist.wrote = TRUE]
      ELSE IF d.action = "comment" /\ Truthy(d.content)
           THEN [w1 EXCEPT !.tick.pc = "execute", !.tick.decision = d,
                           !.hist.wrote = TRUE]
      ELSE IF d.action = "vote" /\ HasId(d.targetId) /\ HasId(d.voteDirection)
           THEN [w1 EXCEPT !.tick.pc = "execute", !.tick.decision = d,
                           !.hist.wrote = TRUE]
      ELSE Returned(w1, d, "executed", TRUE, t)

RecordNothing(w, action, context, t) == w

\* policy.recordAction(action, context), as the scheduler calls it
Record(w, action, context, t) ==
  [w EXCEPT !.policy = recordAction(@, action, context, t),
            !.recorded = Append(@, [action |-> action, context |-> context, at |-> t]),
            !.hist.owed = @ - 1]

\* the lines after a postPost that resolved
PostSucceeded(w, submolt, title, content, t) ==
  Record([w EXCEPT !.mem = setLastPostAt(
                               addAgentPostContent(addAgentPostId(@, CreatedId),
                                                   title, content), t),
                   !.dirty = TRUE,
                   !.hist = NoteCreated([@ EXCEPT !.owed = @ + 1], t)],
         "post", [submoltId |-> submolt, threadId |-> None, content |-> <<content>>], t)

\* the lines after a postComment that resolved
CommentSucceeded(w, targetPostId, content, t) ==
  Record([w EXCEPT !.mem = addAgentCommentId(@, CreatedId),
                   !.dirty = TRUE,
                   !.hist.owed = @ + 1],
         "comment", [submoltId |-> None, threadId |-> targetPostId, content |-> <<content>>], t)

CatchNothing(ok) == FALSE

\* decideAndExecute: the platform call threw and the catch block is entered
CallThrew(ok) == ~ok

\* decideAndExecute, from the answer of the platform call to the return
Executed(w, ok, t) ==
  LET d      == w.tick.decision
      postId == Head(w.tick.posts)
  IN  IF CallThrew(ok) THEN Returned(w, d, "blocked", TRUE, t)
      ELSE IF d.action = "post"
           THEN Returned(PostSucceeded(w, w.tick.submolt, PostTitle(d), d.content[1], t),
                         d, "executed", TRUE, t)
      ELSE IF d.action = "comment"
           THEN Returned(CommentSucceeded(w, IF d.targetId # None THEN d.targetId ELSE postId,
                                          d.content[1], t),
                         d, "executed", TRUE, t)
      ELSE Returned(w, d, "executed", TRUE, t)

\* askProactivePostAndExecute, from the answer of decideProactivePost to the postPost call
ProactiveDecided(w, pd, ok, dry, t) ==
  IF ~ok \/ pd.action # "post" \/ ~Truthy(pd.title) \/ ~Truthy(pd.content)
  THEN AfterFeeds(w, t)
  ELSE IF isDuplicatePost(w.mem, pd.title[1], pd.content[1]) THEN AfterFeeds(w, t)
  ELSE IF RateLimited(w.mem, t) THEN AfterFeeds(w, t)
  ELSE IF dry THEN AfterFeeds(w, t)
  ELSE [w EXCEPT !.tick.pc = "proactivePost",
                 !.tick.decision = [NoDecision EXCEPT !.action = "post", !.title = pd.title,
                                                      !.content = pd.content],
                 !.hist.wrote = TRUE]

\* askProactivePostAndExecute, from the answer of postPost to the return
ProactivePosted(w, ok, t) ==
  LET d  == w.tick.decision
      w1 == [w EXCEPT !.tick.decision = NoDecision]
  IN  AfterFeeds(IF ok THEN PostSucceeded(w1, w.tick.submolt, d.title[1], d.content[1], t)
                 ELSE w1, t)

\* index.ts: the first post is due
FirstPostDue(state, dry) ==
  state.agentPostIds = <<>> /\ ~hasAttemptedFirstPost(state) /\ ~dry

\* the process has just been launched for the first time
MainInit ==
  /\ proc = "boot"
  /\ disk = <<>>
  /\ mem = DefaultState
  /\ dirty = FALSE
  /\ running = FALSE
  /\ intervalId = FALSE
  /\ dryRun \in BOOLEAN
  /\ ticks = <<>>
  /\ hist = NoHistory

Init == EngineInit /\ MainInit

\* the process is gone: process.exit, or a crash
Down ==
  /\ proc' = "down"
  /\ mem' = DefaultState
  /\ dirty' = FALSE
  /\ policy' = NewPolicy
  /\ recorded' = <<>>
  /\ running' = FALSE
  /\ intervalId' = FALSE
  /\ ticks' = <<>>

\* Scheduler.start: the first tick runs up to its memory.load(), the timer is set
StartScheduler ==
  /\ proc' = "running"
  /\ running' = TRUE
  /\ intervalId' = TRUE
  /\ ticks' = <<NewTick>>

\* main: await memory.load()
MainLoad ==
  /\ proc = "boot"
  /\ mem' = load(mem, disk)
  /\ proc' = "claim"
  /\ UNCHANGED <<now, policy, verdict, recorded, lastCall, timestamps, pending, disk, dirty, running,
                 intervalId, dryRun, ticks, hist>>

\* main: claimAgent fails, process.exit(1)
MainClaimFails ==
  /\ proc = "claim"
  /\ ~isClaimed(mem)
  /\ Down
  /\ UNCHANGED <<now, verdict, lastCall, timestamps, pending, disk, dryRun, hist>>

\* main: claimAgent succeeds; then the first post is attempted or the scheduler starts
MainClaim ==
  /\ proc = "claim"
  /\ LET claimed == IF isClaimed(mem) THEN mem ELSE setAgentId(mem, "agent")
         d       == dirty \/ ~isClaimed(mem)
     IN  IF FirstPostDue(claimed, dryRun)
         THEN /\ mem' = setFirstPostAttempted(claimed)
              /\ dirty' = TRUE
              /\ proc' = "firstPost"
              /\ hist' = [hist EXCEPT !.firstPostCalls = @ + 1]
              /\ UNCHANGED <<running, intervalId, ticks>>
         ELSE /\ mem' = claimed
              /\ dirty' = d
              /\ StartScheduler
              /\ hist' = [hist EXCEPT !.ticks = @ + 1]
  /\ UNCHANGED <<now, policy, verdict, recorded, lastCall, timestamps, pending, disk, dryRun>>

\* main: the first postPost resolves or rejects; then await memory.save()
MainFirstPost(ok) ==
  /\ proc = "firstPost"
  /\ IF ok
     THEN /\ mem' = setLastPostAt(
                      addAgentPostContent(addAgentPostId(mem, CreatedId),
                                          firstPostTitle, firstPostContent), now)
          /\ hist' = NoteCreated(hist, now)
          /\ proc' = "firstSave"
     ELSE /\ proc' = "catchSave"
          /\ UNCHANGED <<mem, hist>>
  /\ UNCHANGED <<now, policy, verdict, recorded, lastCall, timestamps, pending, disk, dirty, running,
                 intervalId, dryRun, ticks>>

\* main: the save of the try block; when it throws, the catch block saves again
MainFirstSave(ok) ==
  /\ proc = "firstSave"
  /\ IF ok
     THEN /\ disk' = <<mem>>
          /\ dirty' = FALSE
          /\ StartScheduler
          /\ hist' = [hist EXCEPT !.ticks = @ + 1]
     ELSE /\ proc' = "catchSave"
          /\ UNCHANGED <<disk, dirty, running, intervalId, ticks, hist>>
  /\ UNCHANGED <<now, policy, verdict, recorded, lastCall, timestamps, pending, mem, dryRun>>

\* main: the save of the catch block; when it throws, main rejects and the process exits
MainCatchSave(ok) ==
  /\ proc = "catchSave"
  /\ IF ok
     THEN /\ disk' = <<mem>>
          /\ dirty' = FALSE
          /\ StartScheduler
          /\ hist' = [hist EXCEPT !.ticks = @ + 1]
          /\ UNCHANGED <<mem, policy, recorded>>
     ELSE /\ Down
          /\ UNCHANGED <<disk, hist>>
  /\ UNCHANGED <<now, verdict, lastCall, timestamps, pending, dryRun>>

\* the process is killed
Crash ==
  /\ proc # "down"
  /\ Down
  /\ UNCHANGED <<now, verdict, lastCall, timestamps, pending, disk, dryRun, hist>>

\* the process is launched again
Restart ==
  /\ proc = "down"
  /\ hist.starts < MaxStarts
  /\ proc' = "boot"
  /\ hist' = [hist EXCEPT !.starts = @ + 1]
  /\ UNCHANGED <<now, policy, verdict, recorded, lastCall, timestamps, pending, disk, mem, dirty, running,
                 intervalId, dryRun, ticks>>

\* Date.now() moves on
Elapse ==
  /\ now < MaxTime
  /\ now' = now + 1
  /\ UNCHANGED <<policy, verdict, recorded, lastCall, timestamps, pending, proc, disk, mem, dirty, running,
                 intervalId, dryRun, ticks, hist>>

\* the ticks the model follows at once
Slots == {1, 2}

\* a timer that stop() does not clear and a tick that does not look at running
TimerFireUnguarded ==
  /\ Len(ticks) < Cardinality(Slots)
  /\ proc = "running"
  /\ hist.ticks < MaxTicks
  /\ ticks' = Append(ticks, NewTick)
  /\ hist' = [hist EXCEPT !.ticks = @ + 1]
  /\ UNCHANGED <<now, policy, verdict, recorded, lastCall, timestamps, pending, proc, disk, mem, dirty,
                 running, intervalId, dryRun>>

\* the setInterval timer fires: tick() runs up to its memory.load()
TimerFire ==
  /\ intervalId
  /\ Len(ticks) < Cardinality(Slots)
  /\ running
  /\ hist.ticks < MaxTicks
  /\ ticks' = Append(ticks, NewTick)
  /\ hist' = [hist EXCEPT !.ticks = @ + 1]
  /\ UNCHANGED <<now, policy, verdict, recorded, lastCall, timestamps, pending, proc, disk, mem, dirty,
                 running, intervalId, dryRun>>

\* Scheduler.stop, called while the scheduler runs
SchedulerStop ==
  /\ proc = "running"
  /\ running
  /\ intervalId' = FALSE
  /\ running' = FALSE
  /\ hist' = [hist EXCEPT !.stopped = @ \cup {ticks[i].pc : i \in 1..Len(ticks)}]
  /\ UNCHANGED <<now, policy, verdict, recorded, lastCall, timestamps, pending, proc, disk, mem, dirty,
                 dryRun, ticks>>

\* the timer fires after the tick in flight has returned
TimerFireIdle ==
  /\ ticks = <<>>
  /\ TimerFire

Done(w) == [w EXCEPT !.tick.pc = "done"]
At(i, pc) == i \in 1..Len(ticks) /\ ticks[i].pc = pc

\* a tick without the isClaimed guard
TickLoadUnguarded(i, ok) ==
  /\ At(i, "load")
  /\ LET w == [World(i) EXCEPT !.mem = load(@, disk)]
     IN  Commit(i, IF ok THEN [w EXCEPT !.tick.pc = "discover"] ELSE Done(World(i)))

\* tick: memory.load() resolves or throws; an unclaimed agent ends the tick
TickLoad(i, ok) ==
  /\ At(i, "load")
  /\ LET w == [World(i) EXCEPT !.mem = load(@, disk)]
     IN  Commit(i, IF ok /\ isClaimed(w.mem) THEN [w EXCEPT !.tick.pc = "discover"]
                   ELSE IF ok THEN Done(w) ELSE Done(World(i)))

\* tick: getSubmolts throws
TickDiscoverFails(i) ==
  /\ At(i, "discover")
  /\ Commit(i, Done(World(i)))

\* tick: getPosts of the submolt throws
TickFeedFails(i) ==
  /\ At(i, "discover")
  /\ Commit(i, AfterFeeds(World(i), now))

\* tick: the DM check, getSubmolts, chooseSubmoltFeedsToFetch and getPosts have resolved
TickFeed(i, feed) ==
  /\ At(i, "discover")
  /\ LET new == Cardinality({k \in 1..Len(feed) : ~isThreadSeen(mem, feed[k])})
     IN  Commit(i, ProcessPosts([World(i) EXCEPT !.tick.posts = feed,
                                                 !.tick.newInSubmolt = new], now))

\* decideAndExecute: llm.decideAction resolves
TickDecide(i, d) ==
  /\ At(i, "decide")
  /\ Commit(i, Decided(World(i), d, dryRun, now))

\* decideAndExecute with a catch that gives the item up: it stays unseen
TickDecideFailsUnmarked(i) ==
  /\ At(i, "decide")
  /\ Commit(i, IF ticks[i].item = "post"
               THEN [World(i) EXCEPT !.tick.pc = "comments", !.tick.attempt = 0]
               ELSE ProcessComments([World(i) EXCEPT !.tick.comments = Tail(@),
                                                     !.tick.attempt = 0], now))

\* decideAndExecute: llm.decideAction throws
TickDecideFails(i) ==
  /\ At(i, "decide")
  /\ Commit(i, Returned([World(i) EXCEPT !.tick.attempt = 0], NoDecision, None, FALSE, now))

\* decideAction: one pass of its loop, from the reply of the model to the next
\* request, to the throw, or to the return and what decideAndExecute does next
OracleReply(i, raw) ==
  /\ At(i, "decide")
  /\ LET w     == World(i)
         fresh == [w EXCEPT !.tick.attempt = 0]
         retry == IF w.tick.attempt + 1 < MAX_PARSE_RETRIES
                  THEN [w EXCEPT !.tick.attempt = @ + 1]
                  ELSE Returned(fresh, NoDecision, None, FALSE, now)
     IN  Commit(i, IF raw.kind = "empty" THEN Returned(fresh, NoDecision, None, FALSE, now)
                   ELSE IF raw.kind = "text" THEN retry
                   ELSE IF SafeParseSuccess(raw) THEN Decided(fresh, SafeParseData(raw), dryRun, now)
                   ELSE retry)

\* decideAndExecute: postPost, postComment or vote resolves or throws
TickExecute(i, ok) ==
  /\ At(i, "execute")
  /\ Commit(i, Executed(World(i), ok, now))

\* processPost: getComments resolves
TickComments(i, comments) ==
  /\ At(i, "comments")
  /\ Commit(i, ProcessComments([World(i) EXCEPT !.tick.comments = comments], now))

\* processPost: getComments throws
TickCommentsFail(i) ==
  /\ At(i, "comments")
  /\ Commit(i, ProcessPosts([World(i) EXCEPT !.tick.posts = Tail(@)], now))

\* askProactivePostAndExecute: llm.decideProactivePost resolves or throws
TickProactive(i, pd, ok) ==
  /\ At(i, "proactive")
  /\ Commit(i, ProactiveDecided(World(i), pd, ok, dryRun, now))

\* askProactivePostAndExecute: postPost resolves or throws
TickProactivePost(i, ok) ==
  /\ At(i, "proactivePost")
  /\ Commit(i, ProactivePosted(World(i), ok, now))

\* askExploreAndExecute returns: after a search, its post results have been processed
\* (no results: skip, refresh, a failure, or a search that found no post)
TickExplore(i, results) ==
  /\ At(i, "explore")
  /\ Commit(i, ProcessPosts([World(i) EXCEPT !.tick.posts = results,
                                             !.tick.searching = TRUE,
                                             !.tick.submolt = "general"], now))

\* memory.save: mkdir resolves (the state is serialised, writeFile is called) or throws
TickMkdir(i, ok) ==
  /\ At(i, "mkdir")
  /\ Commit(i, IF ok THEN [World(i) EXCEPT !.tick.snapshot = <<mem>>, !.tick.pc = "writeFile"]
               ELSE Done(World(i)))

\* memory.save: writeFile resolves (dirty is cleared) or throws; tick returns
TickWriteFile(i, ok) ==
  /\ At(i, "writeFile")
  /\ Commit(i, IF ok THEN Done([World(i) EXCEPT !.disk = ticks[i].snapshot, !.dirty = FALSE])
               ELSE Done(World(i)))

\* a rejection of tick() that nothing handles ends the process
Unhandled(i) ==
  /\ Down
  /\ UNCHANGED <<now, verdict, lastCall, timestamps, pending, disk, dryRun, hist>>

\* start: this.tick().catch(...) logs the rejection of tick()
Handled(i) == Commit(i, Done(World(i)))

\* tick: an exception is thrown outside every try block of tick(): the list
\* that getPosts or getComments resolved with holds an element that is no
\* object, and reading its id throws a TypeError
TickRejects(i) ==
  /\ i \in 1..Len(ticks)
  /\ ticks[i].pc \in {"discover", "comments"}
  /\ Handled(i)

MainNext ==
  \/ MainLoad
  \/ MainClaimFails
  \/ MainClaim
  \/ \E ok \in BOOLEAN : MainFirstPost(ok)
  \/ \E ok \in BOOLEAN : MainFirstSave(ok)
  \/ \E ok \in BOOLEAN : MainCatchSave(ok)

\* the steps of a tick other than the decisions and the platform writes
Steps(feeds, commentLists, proactive, searches) ==
  \/ \E i \in Slots, ok \in BOOLEAN : TickLoad(i, ok)
  \/ \E i \in Slots : TickDiscoverFails(i)
  \/ \E i \in Slots : TickFeedFails(i)
  \/ \E i \in Slots, feed \in feeds : TickFeed(i, feed)
  \/ \E i \in Slots, comments \in commentLists : TickComments(i, comments)
  \/ \E i \in Slots : TickCommentsFail(i)
  \/ \E i \in Slots, pd \in proactive, ok \in BOOLEAN : TickProactive(i, pd, ok)
  \/ \E i \in Slots, results \in searches : TickExplore(i, results)
  \/ \E i \in Slots, ok \in BOOLEAN : TickMkdir(i, ok)
  \/ \E i \in Slots, ok \in BOOLEAN : TickWriteFile(i, ok)

\* the steps of a tick up to a platform write, for given answers of platform and oracle
Pipeline(feeds, commentLists, decisions, proactive, searches) ==
  \/ Steps(feeds, commentLists, proactive, searches)
  \/ \E i \in Slots, d \in decisions : TickDecide(i, d)
  \/ \E i \in Slots : TickDecideFails(i)

\* the answers of the platform to postPost, postComment and vote
Writes ==
  \/ \E i \in Slots, ok \in BOOLEAN : TickExecute(i, ok)
  \/ \E i \in Slots, ok \in BOOLEAN : TickProactivePost(i, ok)

\* The agent, ticks shorter than the tick interval, posts without comments
Next ==
  \/ MainNext
  \/ TimerFireIdle
  \/ Pipeline({<<>>, <<"p1">>}, {<<>>}, OracleDecisions, ProactiveDecisions, {<<>>})
  \/ Writes
  \/ Elapse

Spec == Init /\ [][Next]_vars

\* The agent with an oracle that ignores everything: what is decided, and when
Ignore == Decision("ignore", None, <<>>, None, confidenceThreshold)
NoProactivePost == [action |-> "skip", title |-> <<>>, content |-> <<>>]
\* a post decision that breaks no rule of its own
PlainPost == Decision("post", None, << <<97>> >>, None, confidenceThreshold)

SeenNext ==
  \/ MainNext
  \/ TimerFireIdle
  \/ Pipeline(Feeds, CommentLists, {Ignore}, {NoProactivePost}, {<<>>, <<"p1">>})

SpecSeen == Init /\ [][SeenNext]_vars

\* The agent of Spec with ticks that may take longer than the tick interval
OverlapNext ==
  \/ MainNext
  \/ TimerFire
  \/ Pipeline({<<>>, <<"p1">>}, {<<>>}, OracleDecisions, ProactiveDecisions, {<<>>})
  \/ Writes
  \/ Elapse

SpecOverlap == Init /\ [][OverlapNext]_vars

\* The agent with the replies of the model in place of the oracle's decisions
OracleNext ==
  \/ MainNext
  \/ TimerFireIdle
  \/ Steps({<<"p1">>}, {<<>>, <<"c1">>}, {NoProactivePost}, {<<>>})
  \/ \E i \in Slots, raw \in OracleReplies : OracleReply(i, raw)
  \/ \E i \in Slots : TickDecideFails(i)
  \/ \E i \in Slots, ok \in BOOLEAN : TickExecute(i, ok)

SpecOracle == Init /\ [][OracleNext]_vars

\* The agent with a client that may call stop() at any moment
StopSteps ==
  \/ Pipeline({<<>>, <<"p1">>}, {<<>>}, {Ignore, PlainPost}, ProactiveDecisions, {<<>>})
  \/ Writes
  \/ \E i \in Slots : TickRejects(i)

StopNext ==
  \/ MainNext
  \/ TimerFireIdle
  \/ SchedulerStop
  \/ StopSteps

SpecStop == Init /\ [][StopNext]_vars

\* every call a tick awaits settles: it resolves or it rejects
SpecStopLive == SpecStop /\ WF_vars(StopSteps)

\* and the interval timer fires when its time has come
SpecTimerLive == SpecStop /\ WF_vars(StopSteps) /\ WF_vars(TimerFireIdle)

\* The agent started on a memory file that names no agent, with a platform
\* that answers getSubmolts and well-formed lists: a tick ends early only in
\* its memory.load() or at its isClaimed() guard
UnclaimedFiles ==
  { <<>>,
    << [lastSeenThreadIds |-> <<"p1">>] >>,
    << [firstPostAttempted |-> TRUE, lastTickAt |-> <<1>>] >> }

UnclaimedInit ==
  /\ EngineInit
  /\ proc = "boot"
  /\ disk \in UnclaimedFiles
  /\ mem = DefaultState
  /\ dirty = FALSE
  /\ running = FALSE
  /\ intervalId = FALSE
  /\ dryRun \in BOOLEAN
  /\ ticks = <<>>
  /\ hist = NoHistory

GuardNext ==
  \/ MainNext
  \/ TimerFireIdle
  \/ \E i \in Slots, ok \in BOOLEAN : TickLoad(i, ok)
  \/ \E i \in Slots : TickFeedFails(i)
  \/ \E i \in Slots, feed \in {<<>>, <<"p1">>} : TickFeed(i, feed)
  \/ \E i \in Slots, d \in {Ignore, PlainPost} : TickDecide(i, d)
  \/ \E i \in Slots : TickDecideFails(i)
  \/ \E i \in Slots, comments \in {<<>>} : TickComments(i, comments)
  \/ \E i \in Slots : TickCommentsFail(i)
  \/ \E i \in Slots, pd \in ProactiveDecisions, ok \in BOOLEAN : TickProactive(i, pd, ok)
  \/ \E i \in Slots, results \in {<<>>} : TickExplore(i, results)
  \/ \E i \in Slots, ok \in BOOLEAN : TickMkdir(i, ok)
  \/ \E i \in Slots, ok \in BOOLEAN : TickWriteFile(i, ok)
  \/ Writes
  \/ Elapse

SpecGuard == UnclaimedInit /\ [][GuardNext]_vars

\* The agent with an oracle that wants to post: with and without a title, with
\* the text of the first post and with another, without content, with too
\* little confidence
TitledPost == [PlainPost EXCEPT !.title = <<firstPostTitle>>, !.content = <<firstPostContent>>]
OtherPost == [PlainPost EXCEPT !.content = << <<98>> >>]
GateDecisions ==
  { PlainPost,
    TitledPost,
    OtherPost,
    [PlainPost EXCEPT !.content = <<>>],
    [PlainPost EXCEPT !.content = << <<>> >>],
    [PlainPost EXCEPT !.confidence = confidenceThreshold - 1],
    Ignore }

GateNext ==
  \/ MainNext
  \/ TimerFireIdle
  \/ Pipeline({<<>>, <<"p1">>}, {<<>>}, GateDecisions, ProactiveDecisions, {<<>>})
  \/ Writes
  \/ Elapse

SpecGates == Init /\ [][GateNext]_vars

\* The agent with an oracle that proposes, for a submolt without news, a post
\* of its own: one whose content the agent has posted under another title
ProactiveFeeds == {<<>>, <<"p1">>}
ProactiveChoices ==
  ProactiveDecisions \cup
    { [action |-> "post", title |-> << <<97>> >>, content |-> << <<98>> >>] }

ProactiveNext ==
  \/ MainNext
  \/ TimerFireIdle
  \/ Pipeline(ProactiveFeeds, {<<>>}, {Ignore, PlainPost, OtherPost}, ProactiveChoices, {<<>>})
  \/ Writes
  \/ Elapse

SpecProactive == Init /\ [][ProactiveNext]_vars

(***************************************************************************)
(* SpecFeeds: the choice of the submolt feeds of a tick. A submolt is      *)
(* modelled by its name.                                                   *)
(***************************************************************************)
\* how a call of the oracle client ends: it throws, or it returns a value
Threw == [threw |-> TRUE, value |-> <<>>]
Returns(value) == [threw |-> FALSE, value |-> value]

\* the calls of the oracle client end in a throw (the rate limiter or the
\* request failed), or the model replied: nothing, text that is no JSON, JSON
\* that does not fit FeedChoiceSchema, or {fetch: [...]}
FeedReplies(names) ==
  { [kind |-> "throw"], [kind |-> "empty"], [kind |-> "text"], [kind |-> "invalid"] }
    \cup { [kind |-> "json", fetch |-> f] :
             f \in {<<>>} \cup {<<a>> : a \in names} \cup {<<a, b>> : a \in names, b \in names} }

\* a client that hands on the names the model gave, listed or not
chooseFeedsUnfiltered(submolts, reply) ==
  IF reply.kind = "throw" THEN Threw
  ELSE IF reply.kind \in {"empty", "text", "invalid"} THEN Returns(<<>>)
  ELSE Returns(reply.fetch)

\* ChatGPTClient.chooseSubmoltFeedsToFetch
chooseSubmoltFeedsToFetch(submolts, reply) ==
  IF reply.kind = "throw" THEN Threw
  ELSE IF reply.kind \in {"empty", "text", "invalid"} THEN Returns(<<>>)
  ELSE LET valid(name) == Includes(submolts, name) IN Returns(SelectSeq(reply.fetch, valid))

\* tick: submoltsToFetch, from how chooseSubmoltFeedsToFetch ended
SubmoltsToFetch(submolts, toFetch) ==
  IF toFetch.threw THEN submolts
  ELSE IF Len(toFetch.value) > 0
       THEN LET has(name) == Includes(toFetch.value, name) IN SelectSeq(submolts, has)
  ELSE submolts

\* what getSubmolts may resolve with when the list is not empty
ListedNames == {"s1", "s2", "s3"}
SubmoltLists ==
  {<<a>> : a \in ListedNames}
    \cup {<<a, b>> : a \in ListedNames, b \in ListedNames}
    \cup { <<"s1", "s2", "s3">> }

\* the claimed agent, its scheduler running, in a tick that stands at t
MidTick(t) ==
  /\ EngineInit
  /\ proc = "running"
  /\ disk = <<>>
  /\ mem = setAgentId(DefaultState, "agent")
  /\ dirty = TRUE
  /\ running = TRUE
  /\ intervalId = TRUE
  /\ dryRun = FALSE
  /\ ticks = <<t>>
  /\ hist = NoHistory

tickVars == <<now, policy, verdict, recorded, lastCall, timestamps, proc, disk, mem,
              dirty, running, intervalId, dryRun, hist>>

FeedsInit == MidTick([pc |-> "getSubmolts"])

\* tick: getSubmolts resolves with a list that is not empty, and
\* chooseSubmoltFeedsToFetch is called
TickSubmolts(submolts) ==
  /\ ticks = << [pc |-> "getSubmolts"] >>
  /\ ticks' = << [pc |-> "chooseFeeds", submolts |-> submolts] >>
  /\ pending' = << [op |-> "chooseSubmoltFeedsToFetch", submolts |-> submolts] >>
  /\ UNCHANGED tickVars

\* tick: chooseSubmoltFeedsToFetch settles, and the submolt loop begins
TickFeedChoice(reply) ==
  /\ Len(ticks) = 1 /\ ticks[1].pc = "chooseFeeds"
  /\ LET submolts == ticks[1].submolts
         toFetch  == chooseSubmoltFeedsToFetch(pending[1].submolts, reply)
     IN  ticks' = << [pc |-> "getPosts", submolts |-> submolts, reply |-> reply,
                      submoltsToFetch |-> SubmoltsToFetch(submolts, toFetch)] >>
  /\ pending' = <<>>
  /\ UNCHANGED tickVars

FeedsNext ==
  \/ \E submolts \in SubmoltLists : TickSubmolts(submolts)
  \/ \E reply \in FeedReplies({"s1", "s2", "x"}) : TickFeedChoice(reply)

SpecFeeds == FeedsInit /\ [][FeedsNext]_vars

(***************************************************************************)
(* SpecSearch: the explore step of a tick when the oracle chose a search.  *)
(* A query is a name; a search result is a record with an id and a type.   *)
(***************************************************************************)
MAX_SIMPLIFY_RETRIES == 3

Queries == {"q0", "q1", "q2"}
SearchResults ==
  { <<>>,
    << [id |-> "c1", type |-> "comment"] >>,
    << [id |-> "p1", type |-> "post"] >>,
    << [id |-> "c1", type |-> "comment"], [id |-> "p1", type |-> "post"] >>,
    << [id |-> "p1", type |-> "post"], [id |-> "p2", type |-> "post"] >> }

\* results.filter((r) => r.type === "post")
PostResults(results) == LET isPost(r) == r.type = "post" IN SelectSeq(results, isPost)

SearchInit == MidTick([pc |-> "explore"])

\* runSearchAndProcess returns; processed are the results handed to processPost
SearchReturned(t, processed) == [t EXCEPT !.pc = "returned", !.processed = processed]

\* askExploreAndExecute: decideExploreAction chose a search; runSearchAndProcess
\* begins its loop and calls moltbook.search
ExploreSearch(query) ==
  /\ ticks = << [pc |-> "explore"] >>
  /\ ticks' = << [ pc |-> "search", attempt |-> 0, currentQuery |-> query,
                   searches |-> 1, simplifies |-> 0, results |-> <<>>,
                   processed |-> <<>> ] >>
  /\ UNCHANGED pending
  /\ UNCHANGED tickVars

\* a loop that asks for a simpler query after the last attempt as well
SearchResolvesUnbounded(results) ==
  /\ Len(ticks) = 1 /\ ticks[1].pc = "search"
  /\ LET t == [ticks[1] EXCEPT !.results = results]
     IN  ticks' = << IF Len(PostResults(results)) > 0
                     THEN SearchReturned(t, PostResults(results))
                     ELSE [t EXCEPT !.pc = "simplify", !.simplifies = @ + 1] >>
  /\ UNCHANGED pending
  /\ UNCHANGED tickVars

\* runSearchAndProcess: moltbook.search resolves
SearchResolves(results) ==
  /\ Len(ticks) = 1 /\ ticks[1].pc = "search"
  /\ LET t == [ticks[1] EXCEPT !.results = results]
     IN  ticks' = << IF Len(PostResults(results)) > 0
                     THEN SearchReturned(t, PostResults(results))
                     ELSE IF t.attempt < MAX_SIMPLIFY_RETRIES
                          THEN [t EXCEPT !.pc = "simplify", !.simplifies = @ + 1]
                     ELSE SearchReturned([t EXCEPT !.attempt = @ + 1], <<>>) >>
  /\ UNCHANGED pending
  /\ UNCHANGED tickVars

\* runSearchAndProcess: moltbook.search throws
SearchFails ==
  /\ Len(ticks) = 1 /\ ticks[1].pc = "search"
  /\ ticks' = << SearchReturned(ticks[1], <<>>) >>
  /\ UNCHANGED pending
  /\ UNCHANGED tickVars

\* runSearchAndProcess: llm.simplifySearchQuery resolves, the next pass begins
SimplifyResolves(query) ==
  /\ Len(ticks) = 1 /\ ticks[1].pc = "simplify"
  /\ ticks' = << [ticks[1] EXCEPT !.pc = "search", !.currentQuery = query,
                                  !.attempt = @ + 1, !.searches = @ + 1] >>
  /\ UNCHANGED pending
  /\ UNCHANGED tickVars

\* runSearchAndProcess: llm.simplifySearchQuery throws
SimplifyFails ==
  /\ Len(ticks) = 1 /\ ticks[1].pc = "simplify"
  /\ ticks' = << SearchReturned(ticks[1], <<>>) >>
  /\ UNCHANGED pending
  /\ UNCHANGED tickVars

\* the calls runSearchAndProcess awaits settle
SearchSteps ==
  \/ \E results \in SearchResults : SearchResolves(results)
  \/ SearchFails
  \/ \E query \in Queries : SimplifyResolves(query)
  \/ SimplifyFails

SearchNext ==
  \/ \E query \in Queries : ExploreSearch(query)
  \/ SearchSteps

SpecSearch == SearchInit /\ [][SearchNext]_vars

\* every call runSearchAndProcess awaits settles: it resolves or it rejects
SpecSearchLive == SpecSearch /\ WF_vars(SearchSteps)

(***************************************************************************)
(* SpecCalls: the operations of the oracle client, one call at a time. A   *)
(* call is held in pending from its first request to the model until it    *)
(* has returned or thrown. A reply is nothing, text that is no JSON, JSON  *)
(* that does not fit the schema of the operation, or JSON that does.       *)
(***************************************************************************)
OracleOperations ==
  { "decideAction", "chooseSubmoltsToSubscribe", "chooseSubmoltFeedsToFetch",
    "decideProactivePost", "decideExploreAction", "simplifySearchQuery" }

\* the submolts and the query the calls are made with
CallSubmolts == <<"s1", "s2">>
PreviousQuery == <<113, 48>>

NoReplies == { [kind |-> "empty"], [kind |-> "text"], [kind |-> "invalid"] }
SubmoltChoiceReplies ==
  NoReplies \cup { [kind |-> "json", subscribe |-> f] : f \in {<<>>, <<"s1">>, <<"x", "s2">>} }
ProactiveReplies == NoReplies \cup { [kind |-> "json", data |-> d] : d \in ProactiveDecisions }
ExploreChoices ==
  { [action |-> "refresh_submolts", query |-> <<>>],
    [action |-> "search", query |-> <<>>],
    [action |-> "search", query |-> << <<32>> >>],
    [action |-> "search", query |-> << <<113>> >>],
    [action |-> "skip", query |-> <<>>] }
ExploreReplies == NoReplies \cup { [kind |-> "json", data |-> d] : d \in ExploreChoices }
SimplifyReplies == NoReplies \cup { [kind |-> "json", query |-> q] : q \in {<<>>, <<32>>, <<113, 32>>} }

\* what the model may reply to the prompt of an operation
RepliesTo(op) ==
  IF op = "decideAction" THEN OracleReplies
  ELSE IF op = "chooseSubmoltsToSubscribe" THEN SubmoltChoiceReplies
  ELSE IF op = "chooseSubmoltFeedsToFetch" THEN FeedReplies({"s1", "x"}) \ {[kind |-> "throw"]}
  ELSE IF op = "decideProactivePost" THEN ProactiveReplies
  ELSE IF op = "decideExploreAction" THEN ExploreReplies
  ELSE SimplifyReplies

\* the reply parses as JSON and fits the schema of the operation
FitsSchema(op, reply) ==
  /\ reply.kind = "json"
  /\ op = "decideAction" => SafeParseSuccess(reply)

\* ChatGPTClient.chooseSubmoltsToSubscribe, from the reply on
chooseSubmoltsToSubscribe(submolts, reply) ==
  IF reply.kind \in {"empty", "text", "invalid"} THEN Threw
  ELSE LET valid(name) == Includes(submolts, name)
       IN  Returns(SelectSeq(reply.subscribe, valid))

\* ChatGPTClient.decideProactivePost, from the reply on
decideProactivePost(reply) ==
  IF reply.kind \in {"empty", "text", "invalid"} THEN Returns(NoProactivePost)
  ELSE IF /\ reply.data.action = "post"
          /\ \/ reply.data.title \in {<<>>, << <<>> >>}
             \/ reply.data.content \in {<<>>, << <<>> >>}
       THEN Returns(NoProactivePost)
  ELSE Returns(reply.data)

\* ChatGPTClient.decideExploreAction, from the reply on
decideExploreAction(reply) ==
  IF reply.kind \in {"empty", "text", "invalid"} THEN Returns([action |-> "skip", query |-> <<>>])
  ELSE IF /\ reply.data.action = "search"
          /\ \/ reply.data.query = <<>>
             \/ trim(reply.data.query[1]) = <<>>
       THEN Returns([action |-> "skip", query |-> <<>>])
  ELSE Returns(reply.data)

\* ChatGPTClient.simplifySearchQuery, from the reply on
simplifySearchQuery(previousQuery, reply) ==
  IF reply.kind \in {"empty", "text", "invalid"} THEN Returns(previousQuery)
  ELSE IF trim(reply.query) = <<>> THEN Returns(previousQuery)
  ELSE Returns(trim(reply.query))

\* an operation other than decideAction, from the reply of the model on
Operation(op, reply) ==
  IF op = "chooseSubmoltsToSubscribe" THEN chooseSubmoltsToSubscribe(CallSubmolts, reply)
  ELSE IF op = "chooseSubmoltFeedsToFetch" THEN chooseSubmoltFeedsToFetch(CallSubmolts, reply)
  ELSE IF op = "decideProactivePost" THEN decideProactivePost(reply)
  ELSE IF op = "decideExploreAction" THEN decideExploreAction(reply)
  ELSE simplifySearchQuery(PreviousQuery, reply)

\* a call that has settled: it threw, or it returned a value
Settled(call, reply, result) ==
  [call EXCEPT !.pc = IF result.threw THEN "thrown" ELSE "returned",
               !.reply = reply, !.result = result]

CallsInit == MidTick([pc |-> "oracle"])

\* an operation of the client is called and sends its request to the model
CallBegins(op) ==
  /\ pending = <<>>
  /\ pending' = << [ op |-> op, pc |-> "create", requests |-> 1,
                     lastSchemaError |-> None, reply |-> [kind |-> "none"],
                     result |-> Threw ] >>
  /\ UNCHANGED ticks
  /\ UNCHANGED tickVars

\* decideAction: one pass of its loop, from the reply of the model on
DecideActionReply(raw) ==
  /\ Len(pending) = 1 /\ pending[1].pc = "create" /\ pending[1].op = "decideAction"
  /\ LET call == pending[1]
         retry(error) ==
           IF call.requests < MAX_PARSE_RETRIES
           THEN [call EXCEPT !.requests = @ + 1, !.lastSchemaError = error, !.reply = raw]
           ELSE Settled([call EXCEPT !.lastSchemaError = error], raw, Threw)
     IN  pending' = << IF raw.kind = "empty" THEN Settled(call, raw, Threw)
                       ELSE IF raw.kind = "text" THEN retry("Not valid JSON")
                       ELSE IF SafeParseSuccess(raw)
                            THEN Settled(call, raw, Returns(SafeParseData(raw)))
                       ELSE retry("result.error.message") >>
  /\ UNCHANGED ticks
  /\ UNCHANGED tickVars

\* the other operations, from the reply of the model on
OperationReply(reply) ==
  /\ Len(pending) = 1 /\ pending[1].pc = "create" /\ pending[1].op # "decideAction"
  /\ reply \in RepliesTo(pending[1].op)
  /\ pending' = << Settled(pending[1], reply, Operation(pending[1].op, reply)) >>
  /\ UNCHANGED ticks
  /\ UNCHANGED tickVars

\* openai.chat.completions.create rejects: the operation throws
CreateFails ==
  /\ Len(pending) = 1 /\ pending[1].pc = "create"
  /\ pending' = << Settled(pending[1], [kind |-> "throw"], Threw) >>
  /\ UNCHANGED ticks
  /\ UNCHANGED tickVars

\* the caller has its value or its exception
CallEnds ==
  /\ Len(pending) = 1 /\ pending[1].pc \in {"returned", "thrown"}
  /\ pending' = <<>>
  /\ UNCHANGED ticks
  /\ UNCHANGED tickVars

CallsNext ==
  \/ \E op \in OracleOperations : CallBegins(op)
  \/ \E raw \in OracleReplies : DecideActionReply(raw)
  \/ \E op \in OracleOperations : \E reply \in RepliesTo(op) : OperationReply(reply)
  \/ CreateFails
  \/ CallEnds

SpecCalls == CallsInit /\ [][CallsNext]_vars

(***************************************************************************)
(* SpecRequest: one call of MoltbookClient.request at a time. What fetch   *)
(* does is a rejection (no response) or a response with a status and a     *)
(* body; a body that is no JSON reads as {}. Waits are in milliseconds.    *)
(***************************************************************************)
MAX_RETRIES == 3
INITIAL_BACKOFF_MS == 1000

Statuses == {200, 201, 400, 404, 429, 500, 503}
Bodies ==
  { [success |-> <<>>, data |-> <<>>, error |-> <<>>],
    [success |-> <<>>, data |-> <<"d">>, error |-> <<>>],
    [success |-> <<TRUE>>, data |-> <<"d">>, error |-> <<>>],
    [success |-> <<TRUE>>, data |-> <<>>, error |-> <<>>],
    [success |-> <<FALSE>>, data |-> <<>>, error |-> <<"e">>],
    [success |-> <<FALSE>>, data |-> <<>>, error |-> <<>>] }
Rejection == [kind |-> "reject", status |-> 0, body |-> [success |-> <<>>, data |-> <<>>, error |-> <<>>]]
FetchOutcomes ==
  {Rejection} \cup {[kind |-> "response", status |-> st, body |-> bd] : st \in Statuses, bd \in Bodies}

\* res.ok
Ok(status) == status >= 200 /\ status <= 299

\* a client that takes every error status for a passing one
isRetryableAny(statusCode) == statusCode >= 400

\* isRetryable
isRetryable(statusCode) == statusCode >= 500 \/ statusCode = 429

\* new MoltbookClientError(message, hint, statusCode)
MoltbookClientError(message, statusCode) == [message |-> message, statusCode |-> statusCode]

\* request: what it returns for a body that passed: body.data when the body
\* has success and data, the body otherwise
Unwrapped(body) ==
  IF body.success # <<>> /\ body.data # <<>>
  THEN [part |-> "body.data", of |-> body] ELSE [part |-> "body", of |-> body]

RequestInit == MidTick([pc |-> "platform"])

\* request is called: headers, lastError = null, backoff, and the first fetch
RequestBegins ==
  /\ pending = <<>>
  /\ pending' = << [ op |-> "request", pc |-> "fetch", attempt |-> 0,
                     backoff |-> INITIAL_BACKOFF_MS, lastError |-> <<>>,
                     outcomes |-> <<>>, slept |-> <<>>, result |-> Threw ] >>
  /\ UNCHANGED ticks
  /\ UNCHANGED tickVars

\* request: fetch settles, and the pass of the loop runs to its sleep, its
\* throw or its return
FetchSettles(outcome) ==
  /\ Len(pending) = 1 /\ pending[1].op = "request" /\ pending[1].pc = "fetch"
  /\ LET call == [pending[1] EXCEPT !.outcomes = Append(@, outcome)]
         error == IF outcome.kind = "reject" THEN MoltbookClientError("e.message", 0)
                  ELSE IF ~Ok(outcome.status)
                       THEN MoltbookClientError(IF outcome.body.error # <<>> THEN "err.error"
                                                ELSE "res.statusText", outcome.status)
                  ELSE MoltbookClientError(IF outcome.body.error # <<>> THEN "err.error"
                                           ELSE "Unknown error", 0)
         failed == [call EXCEPT !.lastError = <<error>>]
         sleeps == [failed EXCEPT !.pc = "sleep"]
         throws == [failed EXCEPT !.pc = "thrown"]
     IN  pending' =
           << IF outcome.kind = "reject"
              THEN IF call.attempt < MAX_RETRIES - 1 THEN sleeps ELSE throws
              ELSE IF ~Ok(outcome.status)
                   THEN IF isRetryable(outcome.status) /\ call.attempt < MAX_RETRIES - 1
                        THEN sleeps ELSE throws
              ELSE IF outcome.body.success = <<FALSE>> THEN throws
              ELSE [call EXCEPT !.pc = "returned", !.result = Returns(Unwrapped(outcome.body))] >>
  /\ UNCHANGED ticks
  /\ UNCHANGED tickVars

\* request: sleep(backoff) is over; backoff doubles and the next pass fetches
SleepEnds ==
  /\ Len(pending) = 1 /\ pending[1].op = "request" /\ pending[1].pc = "sleep"
  /\ pending' = << [pending[1] EXCEPT !.pc = "fetch", !.slept = Append(@, pending[1].backoff),
                                      !.backoff = @ * 2, !.attempt = @ + 1] >>
  /\ UNCHANGED ticks
  /\ UNCHANGED tickVars

\* the caller has its value or its MoltbookClientError
RequestEnds ==
  /\ Len(pending) = 1 /\ pending[1].op = "request" /\ pending[1].pc \in {"returned", "thrown"}
  /\ pending' = <<>>
  /\ UNCHANGED ticks
  /\ UNCHANGED tickVars

\* what request awaits settles
RequestSteps ==
  \/ \E outcome \in FetchOutcomes : FetchSettles(outcome)
  \/ SleepEnds

RequestNext ==
  \/ RequestBegins
  \/ RequestSteps
  \/ RequestEnds

SpecRequest == RequestInit /\ [][RequestNext]_vars

\* fetch settles and timers fire
SpecRequestLive == SpecRequest /\ WF_vars(RequestSteps)

\* The agent with an oracle that answers every item with a comment for the
\* thread p2, in words it has not used lately
TargetedComments ==
  { Decision("comment", "p2", << <<c>> >>, None, confidenceThreshold) : c \in {98, 99, 100} }

CommentsNext ==
  \/ MainNext
  \/ TimerFireIdle
  \/ Pipeline({<<"p1">>}, {<<>>, <<"c1", "c2">>}, TargetedComments, {NoProactivePost}, {<<>>})
  \/ \E i \in Slots, ok \in BOOLEAN : TickExecute(i, ok)
  \/ Elapse

SpecComments == Init /\ [][CommentsNext]_vars

\* The agent with an oracle that is down: every decideAction throws
FailingNext ==
  \/ MainNext
  \/ TimerFireIdle
  \/ Steps(Feeds, CommentLists, {NoProactivePost}, {<<>>})
  \/ \E i \in Slots : TickDecideFails(i)

SpecFailing == Init /\ [][FailingNext]_vars

(***************************************************************************)
(* SpecLimiter: the RateLimiter and its callers. Here a unit of now is 30   *)
(* seconds. A caller that waits is held in pending with the time its timer  *)
(* is set for; the times at which calls of acquire completed are kept with  *)
(* the callers' tick.                                                       *)
(***************************************************************************)
\* 60 * 1000 ms
Minute == 2
\* RateLimiterConfig.maxCallsPerMinute
maxCallsPerMinute == 2
\* callers that wait at the same time
MaxWaiting == 2

\* this.timestamps.filter((t) => t > oneMinuteAgo)
FilterLastMinute(ts, t) == LET recent(x) == x > t - Minute IN SelectSeq(ts, recent)

\* a limiter whose caller, once its timer has fired, records its call unchecked
acquireUnchecked(ts, t) ==
  [timestamps |-> Append(FilterLastMinute(ts, t), t), admitted |-> TRUE, wakeAt |-> t]

\* RateLimiter.acquire, up to its await or its return
acquire(ts, t) ==
  LET recent == FilterLastMinute(ts, t)
  IN  IF Len(recent) >= maxCallsPerMinute /\ recent[1] + Minute - t > 0
      THEN [timestamps |-> recent, admitted |-> FALSE, wakeAt |-> recent[1] + Minute]
      ELSE [timestamps |-> Append(recent, t), admitted |-> TRUE, wakeAt |-> t]

\* RateLimiter.acquire: return this.acquire() after the wait
acquireAgain(ts, t) == acquire(ts, t)

LimiterInit == MidTick([pc |-> "limiter", completed |-> <<>>, waits |-> 0])

\* a caller calls acquire()
Acquire ==
  /\ Len(ticks) = 1 /\ ticks[1].pc = "limiter"
  /\ Len(ticks[1].completed) + Len(pending) < MaxCalls
  /\ Len(pending) < MaxWaiting
  /\ LET r == acquire(timestamps, now)
     IN  /\ timestamps' = r.timestamps
         /\ IF r.admitted
            THEN /\ ticks' = << [ticks[1] EXCEPT !.completed = Append(@, now)] >>
                 /\ UNCHANGED pending
            ELSE /\ ticks' = << [ticks[1] EXCEPT !.waits = @ + 1] >>
                 /\ pending' = Append(pending, [op |-> "acquire", wakeAt |-> r.wakeAt])
  /\ UNCHANGED <<now, policy, verdict, recorded, lastCall, proc, disk, mem, dirty, running,
                 intervalId, dryRun, hist>>

\* the timer of a waiting caller fires, on time or late, and it calls acquire again
TimerFires(k) ==
  /\ Len(ticks) = 1 /\ ticks[1].pc = "limiter"
  /\ k \in 1..Len(pending) /\ pending[k].op = "acquire"
  /\ now >= pending[k].wakeAt
  /\ LET r == acquireAgain(timestamps, now)
     IN  /\ timestamps' = r.timestamps
         /\ IF r.admitted
            THEN /\ ticks' = << [ticks[1] EXCEPT !.completed = Append(@, now)] >>
                 /\ pending' = Remove(pending, k)
            ELSE /\ ticks' = << [ticks[1] EXCEPT !.waits = @ + 1] >>
                 /\ pending' = [pending EXCEPT ![k].wakeAt = r.wakeAt]
  /\ UNCHANGED <<now, policy, verdict, recorded, lastCall, proc, disk, mem, dirty, running,
                 intervalId, dryRun, hist>>

LimiterNext ==
  \/ Acquire
  \/ \E k \in 1..MaxWaiting : TimerFires(k)
  \/ Elapse

SpecLimiter == LimiterInit /\ [][LimiterNext]_vars

\* the startup sequence alone, over crashes and restarts
StartupNext == MainNext \/ Crash \/ Restart \/ Elapse

SpecStartup == Init /\ [][StartupNext]_vars

(***************************************************************************)
(* Properties of the PolicyEngine                                          *)
(***************************************************************************)
\* recordAction("post", ...) calls made less than 60 minutes before t
RecentPostCount(t) ==
  Cardinality({i \in 1..Len(recorded) :
                 recorded[i].action = "post" /\ t - recorded[i].at < OneHour})

PostRecordCount ==
  Cardinality({i \in 1..Len(recorded) : recorded[i].action = "post"})

\* recordAction("comment", {threadId}) calls made for thread th
RecordedComments(th) ==
  Cardinality({i \in 1..Len(recorded) :
                 recorded[i].action = "comment" /\ recorded[i].context.threadId = th})

\* the calls that recorded a fingerprint after call i
LaterFingerprints(i) ==
  Cardinality({j \in (i + 1)..Len(recorded) : Truthy(recorded[j].context.content)})

\* the words of a string: its maximal runs of non-whitespace, in lower case
RECURSIVE WordEnd(_, _)
WordEnd(s, i) == IF i <= Len(s) /\ ~IsSpace(s[i]) THEN WordEnd(s, i + 1) ELSE i - 1

RECURSIVE Words(_)
Words(s) ==
  IF s = <<>> THEN <<>>
  ELSE IF IsSpace(Head(s)) THEN Words(Tail(s))
  ELSE LET n == WordEnd(s, 1)
       IN  <<toLowerCase(SubSeq(s, 1, n))>> \o Words(SubSeq(s, n + 1, Len(s)))

\* two strings that differ only in letter case and in whitespace
SameUpToCaseAndSpace(a, b) == Words(a) = Words(b)

\* a post decision runs into no rule other than the hourly cap
NoOtherPostViolation(d, c) ==
  /\ Truthy(d.content) =>
       /\ Len(d.content[1]) <= maxContentLength
       /\ \A i \in 1..Len(recorded) :
            (Truthy(recorded[i].context.content) /\ LaterFingerprints(i) < maxRecentHashes)
              => simpleHash(recorded[i].context.content[1]) # simpleHash(d.content[1])
  /\ HasId(c.submoltId) =>
       \A i \in 1..Len(recorded) :
         (recorded[i].action = "post" /\ recorded[i].context.submoltId = c.submoltId)
           => now - recorded[i].at >= cooldownPerSubmolt

\* C7: every decision other than ignore whose confidence is strictly below
\* confidenceThreshold is rejected with reason "confidence below threshold",
\* whatever its other fields, the context and the counters are.
C7_ConfidenceGate ==
  \A d \in WindowDecisions, c \in WindowContexts :
    (d.action # "ignore" /\ d.confidence < confidenceThreshold)
      => Validate(policy, d, c, now) = Rejected("confidence below threshold")

\* validate has just returned "confidence below threshold" for a post decision
\* although the hourly cap is reached as well
C7_Witness ==
  /\ lastCall.op = "validate" /\ lastCall.action = "post"
  /\ verdict = Rejected("confidence below threshold")
  /\ RecentPostCount(now) >= maxPostsPerHour

\* C8: a post decision at or above the threshold is rejected with "max posts per
\* hour exceeded" when maxPostsPerHour posts or more were recorded less than 60
\* minutes ago, and is allowed when fewer were and no other rule is violated:
\* posts recorded 60 minutes ago or earlier do not count.
C8_SlidingWindow ==
  \A d \in WindowDecisions, c \in WindowContexts :
    (d.action = "post" /\ d.confidence >= confidenceThreshold)
      => /\ RecentPostCount(now) >= maxPostsPerHour
              => Validate(policy, d, c, now) = Rejected("max posts per hour exceeded")
         /\ (RecentPostCount(now) < maxPostsPerHour /\ NoOtherPostViolation(d, c))
              => Validate(policy, d, c, now) = Allowed

\* maxPostsPerHour posts were recorded, the oldest has left the window, and
\* validate has just allowed a further post
C8_Witness ==
  /\ lastCall.op = "validate" /\ lastCall.action = "post"
  /\ verdict = Allowed
  /\ PostRecordCount >= maxPostsPerHour
  /\ RecentPostCount(now) < maxPostsPerHour

\* the thread the claim resolves: decision.targetId, else context.threadId
ClaimedThread(d, c) == IF d.targetId # None THEN d.targetId ELSE c.threadId

\* C9: a comment decision at or above the threshold is rejected with "max
\* comments per thread exceeded" whenever the thread decision.targetId, or
\* context.threadId when targetId is absent, has maxCommentsPerThread recorded
\* comments or more.
C9_TargetThreadCap ==
  \A d \in ThreadDecisions, c \in ThreadContexts :
    ( /\ d.confidence >= confidenceThreshold
      /\ ClaimedThread(d, c) # None
      /\ RecordedComments(ClaimedThread(d, c)) >= maxCommentsPerThread )
      => Validate(policy, d, c, now) = Rejected("max comments per thread exceeded")

\* a post or comment decision reaches the repetition check
ReachesRepetitionCheck(d, c) ==
  /\ d.confidence >= confidenceThreshold
  /\ d.action = "post" => RecentPostCount(now) < maxPostsPerHour
  /\ d.action = "comment" =>
       (CommentThread(d, c) = None
          \/ RecordedComments(CommentThread(d, c)) < maxCommentsPerThread)
  /\ Len(d.content[1]) <= maxContentLength

\* C10 as stated: after recordAction with content C, a post or comment decision
\* whose content differs from C only in letter case and whitespace is rejected
\* with "repetition detected" while fewer than maxRecentHashes further
\* fingerprints were recorded.
C10_RepetitionAnyContent ==
  \A i \in 1..Len(recorded) : \A d \in RepeatDecisions, c \in RepeatContexts :
    ( /\ Len(recorded[i].context.content) = 1
      /\ Len(d.content) = 1
      /\ SameUpToCaseAndSpace(recorded[i].context.content[1], d.content[1])
      /\ LaterFingerprints(i) < maxRecentHashes
      /\ ReachesRepetitionCheck(d, c) )
      => Validate(policy, d, c, now) = Rejected("repetition detected")

\* C10 amended: the same, for a recorded content and a decision content that
\* are both non-empty strings.
C10_Repetition ==
  \A i \in 1..Len(recorded) : \A d \in RepeatDecisions, c \in RepeatContexts :
    ( /\ Truthy(recorded[i].context.content)
      /\ Truthy(d.content)
      /\ SameUpToCaseAndSpace(recorded[i].context.content[1], d.content[1])
      /\ LaterFingerprints(i) < maxRecentHashes
      /\ ReachesRepetitionCheck(d, c) )
      => Validate(policy, d, c, now) = Rejected("repetition detected")

\* validate has just rejected a content as a repetition although the only
\* content recorded is longer than maxContentLength, so that the content
\* rejected is a variant of it and not the recorded string itself
C10_Witness ==
  /\ lastCall.op = "validate"
  /\ verdict = Rejected("repetition detected")
  /\ Len(recorded) > 0
  /\ \A i \in 1..Len(recorded) : recorded[i].context.content = <<PaddedA>>

(***************************************************************************)
(* Properties of main and the Scheduler                                    *)
(***************************************************************************)
\* C1: while the scheduler runs, at no time are two tick bodies executing: a
\* timer firing while a tick is in flight does not begin a second tick body.
C1_NoOverlap == Len(ticks) <= 1

\* C2: over any sequence of process starts and crashes, the first-post
\* postPost call of main is issued at most once in total.
C2_FirstPostOnce == hist.firstPostCalls <= 1

\* C3: of any two successful post creations (first post, pipeline post or
\* proactive post), the later one happens at least postInterval after the
\* earlier one.
C3_PostInterval == ~hist.tooSoon

\* C4 as stated: once an id has been routed through the decision pipeline and
\* marked seen, decideAction is never invoked for it again.
C4_NeverRedecided == hist.redecided = {}

\* C4 amended: decideAction is invoked for a post id (a comment id) only when
\* the id is not in lastSeenThreadIds (lastSeenCommentIds) at that moment, and
\* the seen lists never exceed MAX_LAST_SEEN entries.
C4_DecidedOnlyUnseen ==
  /\ hist.decidedSeen = {}
  /\ Len(mem.lastSeenThreadIds) <= MAX_LAST_SEEN
  /\ Len(mem.lastSeenCommentIds) <= MAX_LAST_SEEN

\* an id in the seen list came up again in a feed and no decision was asked
\* for it
C4_Witness ==
  /\ hist.skipped # {}
  /\ hist.redecided = {}
  /\ \E id \in hist.skipped : isThreadSeen(mem, id)

\* the recordAction calls of this process that recorded a fingerprint
FingerprintRecords ==
  Cardinality({i \in 1..Len(recorded) : Truthy(recorded[i].context.content)})

\* C5: the PolicyEngine counters hold nothing that recordAction did not put
\* there, and the scheduler has called recordAction exactly once for each
\* post or comment the platform accepted, never otherwise (blocked, skipped,
\* dry run, failed call).
C5_RecordOncePerExecuted ==
  /\ hist.owed = 0
  /\ dryRun => recorded = <<>>
  /\ Len(policy.postsInLastHour) <= PostRecordCount
  /\ \A th \in DOMAIN policy.commentsByThread :
       policy.commentsByThread[th] = RecordedComments(th)
  /\ \A sm \in DOMAIN policy.lastPostBySubmolt :
       \E i \in 1..Len(recorded) :
          /\ recorded[i].action = "post"
          /\ recorded[i].context.submoltId = sm
          /\ recorded[i].at = policy.lastPostBySubmolt[sm]
  /\ Len(policy.recentContentHashes) <= FingerprintRecords

\* a comment was executed and recorded, and the decision after it passed the
\* gates but its platform call failed
C5_Witness ==
  /\ \E i \in 1..Len(recorded) : recorded[i].action = "comment"
  /\ hist.last.outcome = "blocked"
  /\ hist.last.passed

\* the fields dry run must leave alone, in a memory document
Untouched(state) ==
  /\ state.agentPostIds = <<>>
  /\ state.agentCommentIds = <<>>
  /\ state.recentPostContentHashes = <<>>
  /\ state.lastPostAt = <<>>

\* C6: with dryRun the scheduler never calls postPost, postComment or vote;
\* a decision other than ignore that passes the gates gets outcome "skipped";
\* recordAction is never called and agentPostIds, agentCommentIds,
\* recentPostContentHashes and lastPostAt are never updated.
C6_DryRun ==
  dryRun =>
    /\ ~hist.wrote
    /\ \A i \in 1..Len(ticks) : ticks[i].pc \notin {"execute", "proactivePost"}
    /\ (hist.last.passed /\ hist.last.action \notin {None, "ignore"})
          => hist.last.outcome = "skipped"
    /\ recorded = <<>>
    /\ policy = NewPolicy
    /\ Untouched(mem)
    /\ disk # <<>> => Untouched(disk[1])

\* in dry run a post decision passed every gate and was skipped, and the tick
\* has saved the memory
C6_Witness ==
  /\ dryRun
  /\ hist.last = [action |-> "post", outcome |-> "skipped", passed |-> TRUE]
  /\ disk # <<>>

\* vote decisions at or above the threshold, with every combination of fields
VoteDecisions ==
  { Decision("vote", t, c, v, k) :
      t \in {None, "", "p1", "c1"}, c \in {<<>>, << <<97>> >>},
      v \in {None, "up", "down"}, k \in {confidenceThreshold, 10} }

\* C11: validate rejects a vote decision at or above the threshold with reason
\* "vote requires targetId and voteDirection" when targetId or voteDirection is
\* absent (an empty targetId counts as absent) and allows it otherwise, and the
\* scheduler's vote call is only ever issued for a decision that has both.
C11_VoteNeedsTarget ==
  /\ \A d \in VoteDecisions, c \in WindowContexts :
       Validate(policy, d, c, now) =
         IF d.targetId \in {None, ""} \/ d.voteDirection = None
         THEN Rejected("vote requires targetId and voteDirection")
         ELSE Allowed
  /\ \A i \in 1..Len(ticks) :
       (ticks[i].pc = "execute" /\ ticks[i].decision.action = "vote")
         => (ticks[i].decision.targetId # None /\ ticks[i].decision.voteDirection # None)

\* the oracle answered with a vote decision that validate rejected, after a
\* post had been recorded: the decision was blocked and no call was issued
C11_Witness ==
  /\ hist.last = [action |-> "vote", outcome |-> "blocked", passed |-> FALSE]
  /\ recorded # <<>>

\* ignore decisions, with every combination of fields and confidence
IgnoreDecisions ==
  { Decision("ignore", t, c, v, k) :
      t \in {None, "p2"}, c \in {<<>>, << <<97>> >>},
      v \in {None, "up"}, k \in {0, confidenceThreshold} }

\* C12: validate allows every ignore decision, whatever its confidence and
\* the counters are; when the oracle answers ignore, decideAndExecute returns
\* outcome "skipped" in the same step, issues no platform write call and
\* leaves the PolicyEngine as it was (no recordAction).
C12_IgnoreSkipped ==
  /\ [](\A d \in IgnoreDecisions, c \in WindowContexts :
          Validate(policy, d, c, now) = Allowed)
  /\ [](\A i \in 1..Len(ticks) :
          ticks[i].pc = "execute" => ticks[i].decision.action # "ignore")
  /\ [][\A i \in Slots : \A d \in IgnoreDecisions :
          TickDecide(i, d) =>
            /\ hist'.last = [action |-> "ignore", outcome |-> "skipped", passed |-> TRUE]
            /\ hist'.wrote = hist.wrote
            /\ recorded' = recorded
            /\ policy' = policy
            /\ Len(ticks') = Len(ticks) /\ ticks'[i].pc \notin {"execute", "proactivePost"}]_vars

\* an ignore decision of confidence 0 was skipped at a moment when the counters
\* make validate reject a plain post
C12_Witness ==
  /\ hist.last = [action |-> "ignore", outcome |-> "skipped", passed |-> TRUE]
  /\ mem.recentDecisions # <<>>
  /\ mem.recentDecisions[Len(mem.recentDecisions)].outcome = "skipped"
  /\ ~dryRun
  /\ ~Validate(policy, PlainPost, [submoltId |-> SubmoltName, threadId |-> "p1"], now).allowed

\* the fields a decision's action requires
RequiredFields(d) ==
  /\ d.action = "post" => (d.title # <<>> /\ d.content # <<>>)
  /\ d.action = "vote" => d.voteDirection # None

\* C13: every decision that decideAction returned and that validate has let
\* through to a platform call has the fields its action requires (post: title
\* and content; vote: voteDirection).
C13_RequiredFields ==
  \A i \in 1..Len(ticks) : ticks[i].pc = "execute" => RequiredFields(ticks[i].decision)

\* the fields of the memory that a successful post or comment updates
WriteFields(state) ==
  <<state.agentPostIds, state.agentCommentIds, state.recentPostContentHashes,
    state.lastPostAt>>

\* C14: in the step in which postPost, postComment or vote throws, the decision
\* gets outcome "blocked" (and is saved with it), recordAction is not called,
\* agentPostIds, agentCommentIds, recentPostContentHashes and lastPostAt keep
\* their values, and the tick goes on to its next await instead of returning.
C14_ThrowBlocks ==
  [][\A i \in Slots :
       TickExecute(i, FALSE) =>
         /\ hist'.last.outcome = "blocked" /\ hist'.last.passed
         /\ mem'.recentDecisions[Len(mem'.recentDecisions)].outcome = "blocked"
         /\ recorded' = recorded
         /\ policy' = policy
         /\ WriteFields(mem') = WriteFields(mem)
         /\ hist'.owed = hist.owed
         /\ Len(ticks') = Len(ticks)
         /\ ticks'[i].pc \in {"comments", "decide", "explore", "proactive", "mkdir"}]_vars

\* a comment call threw after an earlier post had succeeded: the decision is
\* saved as blocked and the tick is asking for the decision on the next comment
C14_Witness ==
  /\ hist.last = [action |-> "comment", outcome |-> "blocked", passed |-> TRUE]
  /\ mem.agentPostIds # <<>>
  /\ \E i \in 1..Len(ticks) : ticks[i].pc = "decide" /\ ticks[i].item = "comment"

\* the context decideAndExecute hands to validate for the item tick i is at
ItemContext(i) == [submoltId |-> ticks[i].submolt, threadId |-> Head(ticks[i].posts)]

\* C15: in the step in which decideAction answers with a decision that
\* validate rejects, decideAndExecute issues no platform write call and returns
\* outcome "blocked", and the decision is appended to recentDecisions with
\* outcome "blocked".
C15_RejectedBlocked ==
  [][\A i \in Slots : \A d \in OracleDecisions :
       (TickDecide(i, d) /\ ~Validate(policy, d, ItemContext(i), now).allowed) =>
         /\ hist'.last = [action |-> d.action, outcome |-> "blocked", passed |-> FALSE]
         /\ mem'.recentDecisions[Len(mem'.recentDecisions)] =
              [context |-> ItemContext(i), decision |-> d, outcome |-> "blocked"]
         /\ Len(mem'.recentDecisions) =
              IF Len(mem.recentDecisions) < MAX_RECENT_DECISIONS
              THEN Len(mem.recentDecisions) + 1 ELSE MAX_RECENT_DECISIONS
         /\ hist'.wrote = hist.wrote
         /\ recorded' = recorded
         /\ WriteFields(mem') = WriteFields(mem)
         /\ Len(ticks') = Len(ticks) /\ ticks'[i].pc \notin {"execute", "proactivePost"}]_vars

\* validate rejected a comment decision at the threshold (a repetition of what
\* was recorded) and the decision was saved as blocked
C15_Witness ==
  /\ hist.last = [action |-> "comment", outcome |-> "blocked", passed |-> FALSE]
  /\ recorded # <<>>
  /\ mem.recentDecisions # <<>>
  /\ mem.recentDecisions[Len(mem.recentDecisions)].decision.action = "comment"
  /\ mem.recentDecisions[Len(mem.recentDecisions)].outcome = "blocked"

\* recentDecisions after one saveDecision call
WithEntry(list, context, decision, outcome) ==
  LastN(Append(list, [context |-> context, decision |-> decision, outcome |-> outcome]),
        MAX_RECENT_DECISIONS)

C17_MarkIdempotent ==
  [][/\ \A id \in ThreadIds :
          (MemMarkThread(id) /\ isThreadSeen(mem, id)) => (mem' = mem /\ dirty' = dirty)
     /\ \A id \in CommentIds :
          (MemMarkComment(id) /\ isCommentSeen(mem, id)) => (mem' = mem /\ dirty' = dirty)]_vars

\* the last call marked the oldest id of a full thread list again, after a
\* save had cleared the dirty flag, and the flag is still clear
C17_Witness ==
  /\ hist.calls # <<>>
  /\ LET last == hist.calls[Len(hist.calls)]
     IN  /\ last.op = "markThreadSeen" /\ last.hit /\ ~last.dirty
         /\ Len(mem.lastSeenThreadIds) = MAX_LAST_SEEN
         /\ mem.lastSeenThreadIds[1] = last.arg
  /\ ~dirty

\* the ids the client has passed to the method op, in call order
RECURSIVE ArgsOf(_, _)
ArgsOf(calls, op) ==
  IF calls = <<>> THEN <<>>
  ELSE IF Head(calls).op = op THEN <<Head(calls).arg>> \o ArgsOf(Tail(calls), op)
  ELSE ArgsOf(Tail(calls), op)

\* the n newest elements of a sequence
Newest(list, n) == [k \in 1..(IF Len(list) < n THEN Len(list) ELSE n) |->
                      list[k + (IF Len(list) < n THEN 0 ELSE Len(list) - n)]]

\* the insertions a sequence of mark calls amounts to: a call inserts its id
\* unless the id is among the MAX_LAST_SEEN newest insertions
RECURSIVE Insertions(_)
Insertions(ids) ==
  IF ids = <<>> THEN <<>>
  ELSE LET before == Insertions(SubSeq(ids, 1, Len(ids) - 1))
           id     == ids[Len(ids)]
       IN  IF \E k \in 1..Len(Newest(before, MAX_LAST_SEEN)) :
                 Newest(before, MAX_LAST_SEEN)[k] = id
           THEN before
           ELSE Append(before, id)

NoDuplicates(list) == \A j, k \in 1..Len(list) : list[j] = list[k] => j = k

\* C18: after any sequence of markThreadSeen and markCommentSeen calls each
\* seen list holds at most MAX_LAST_SEEN ids, holds none twice, and consists
\* of the MAX_LAST_SEEN most recently inserted ids in insertion order, where
\* marking an id that is in the list inserts nothing.
C18_FifoCap ==
  /\ Len(mem.lastSeenThreadIds) <= MAX_LAST_SEEN
  /\ Len(mem.lastSeenCommentIds) <= MAX_LAST_SEEN
  /\ NoDuplicates(mem.lastSeenThreadIds)
  /\ NoDuplicates(mem.lastSeenCommentIds)
  /\ mem.lastSeenThreadIds =
       Newest(Insertions(ArgsOf(hist.calls, "markThreadSeen")), MAX_LAST_SEEN)
  /\ mem.lastSeenCommentIds =
       Newest(Insertions(ArgsOf(hist.calls, "markCommentSeen")), MAX_LAST_SEEN)

\* the oldest id of a full list was marked again and then a new id was
\* marked: the oldest id is the one that went
C18_Witness ==
  /\ Len(ArgsOf(hist.calls, "markThreadSeen")) = MAX_LAST_SEEN + 2
  /\ LET ids == ArgsOf(hist.calls, "markThreadSeen")
     IN  /\ NoDuplicates(SubSeq(ids, 1, MAX_LAST_SEEN))
         /\ ids[MAX_LAST_SEEN + 1] = ids[1]
         /\ \A k \in 1..(MAX_LAST_SEEN + 1) : ids[MAX_LAST_SEEN + 2] # ids[k]
         /\ ~isThreadSeen(mem, ids[1])
         /\ mem.lastSeenThreadIds[Len(mem.lastSeenThreadIds)] = ids[MAX_LAST_SEEN + 2]

\* the posts that differ from a registered post only in letter case and in
\* whitespace, among the titles and contents of up to MaxStrLen characters
Variants ==
  [post \in AddedPosts |->
     {v \in Strings(MaxStrLen) \X Strings(MaxStrLen) :
        SameUpToCaseAndSpace(post[1], v[1]) /\ SameUpToCaseAndSpace(post[2], v[2])}]

\* the fingerprints isDuplicatePost looks up for the variants of a post
VariantHashes ==
  [post \in AddedPosts |-> {contentHash(v[1], v[2]) : v \in Variants[post]}]

\* isDuplicatePost is true of the post and of every variant of it
DuplicateInAllVariants(state, post) ==
  /\ isDuplicatePost(state, post[1], post[2])
  /\ \A h \in VariantHashes[post] : Includes(state.recentPostContentHashes, h)

\* call j is a save that wrote the file
Wrote(j) == hist.calls[j].op = "save" /\ hist.calls[j].hit /\ hist.calls[j].dirty

\* the calls from i to j that are op
CallsBetween(i, j, op) == {k \in (i + 1)..(j - 1) : hist.calls[k].op = op}

\* call i registered a post on an instance that the save j wrote out, fewer
\* than MAX_RECENT_POST_HASHES posts were registered in between, and the file
\* is still the one that save wrote
SavedPost(i, j) ==
  /\ i < j
  /\ hist.calls[i].op = "addAgentPostContent"
  /\ Wrote(j)
  /\ CallsBetween(i, j, "load") = {} /\ CallsBetween(i, j, "new") = {}
  /\ \A k \in (i + 1)..(j - 1) : ~Wrote(k)
  /\ Cardinality(CallsBetween(i, j, "addAgentPostContent")) < MAX_RECENT_POST_HASHES
  /\ \A k \in (j + 1)..Len(hist.calls) : ~Wrote(k)

\* call k is the load of a fresh instance
FreshLoad(k) ==
  k > 1 /\ hist.calls[k].op = "load" /\ hist.calls[k - 1].op = "new"

\* C19: when addAgentPostContent(title, content) is followed by a save() that
\* writes the file, with fewer than MAX_RECENT_POST_HASHES posts registered in
\* between, a freshly constructed MemoryStore that loads this file reports
\* isDuplicatePost for the title and content and for every variant that
\* differs only in letter case and whitespace.
C19_DuplicateAcrossRestart ==
  \A i, j \in 1..Len(hist.calls) :
    SavedPost(i, j) =>
      /\ DuplicateInAllVariants(load(DefaultState, disk), hist.calls[i].arg)
      /\ FreshLoad(Len(hist.calls)) => DuplicateInAllVariants(mem, hist.calls[i].arg)

\* "A" with "a " was registered, another post after it, the state was saved,
\* and a fresh instance has loaded the file: " a" with "A" is a duplicate
C19_Witness ==
  /\ Len(hist.calls) = 5
  /\ SavedPost(1, 3)
  /\ hist.calls[1].arg = << <<65>>, <<97, 32>> >>
  /\ hist.calls[2].arg # hist.calls[1].arg
  /\ FreshLoad(5)
  /\ isDuplicatePost(mem, <<32, 97>>, <<65>>)
  /\ Cardinality(Variants[hist.calls[1].arg]) > 1

\* C20: once setAgentId has been called on a MemoryStore, isClaimed() is true
\* after every later operation on that instance, load() and save() included.
C20_ClaimLatch ==
  \A i \in 1..Len(hist.calls) :
    (hist.calls[i].op = "setAgentId" /\ CallsBetween(i, Len(hist.calls) + 1, "new") = {})
      => isClaimed(mem)

\* call i was made on the instance the client holds now
OnThisInstance(i) == CallsBetween(i, Len(hist.calls) + 1, "new") = {}

\* call j is a save that wrote the state call i had changed, and the file is
\* still the one that save wrote
SavedAfter(i, j) ==
  /\ i < j
  /\ Wrote(j)
  /\ CallsBetween(i, j, "load") = {} /\ CallsBetween(i, j, "new") = {}
  /\ \A k \in (j + 1)..Len(hist.calls) : ~Wrote(k)

\* after setFirstPostAttempted() and a save() that wrote the file, a fresh
\* MemoryStore that loads the file has attempted the first post
FirstPostLatchAcrossReload ==
  \A i, j \in 1..Len(hist.calls) :
    (hist.calls[i].op = "setFirstPostAttempted" /\ SavedAfter(i, j))
      => /\ hasAttemptedFirstPost(load(DefaultState, disk))
         /\ FreshLoad(Len(hist.calls)) => hasAttemptedFirstPost(mem)

\* C21: once setFirstPostAttempted has been called on a MemoryStore,
\* hasAttemptedFirstPost() is true after every later operation on that
\* instance, whether or not a post was ever registered, and after a save() a
\* fresh MemoryStore that loads the file returns true as well.
C21_FirstPostLatch ==
  /\ \A i \in 1..Len(hist.calls) :
       (hist.calls[i].op = "setFirstPostAttempted" /\ OnThisInstance(i))
         => hasAttemptedFirstPost(mem)
  /\ FirstPostLatchAcrossReload

\* the client holds a MemoryStore on which nothing but the constructor has run
FreshInstance == hist.calls = <<>> \/ hist.calls[Len(hist.calls)].op = "new"

\* the outcome the client noted for the call that the step makes
NotedOutcome == hist'.calls[Len(hist'.calls)].arg

\* C22: load() on an absent file does not throw, and on a freshly constructed
\* MemoryStore it leaves agentPostIds, agentCommentIds, recentDecisions and
\* recentAgentMemory empty, no id seen, and isClaimed() false.
C22_AbsentFile ==
  [][(MemLoadFile(FALSE) /\ disk = <<>>) =>
       /\ NotedOutcome = "absent"
       /\ FreshInstance =>
            /\ getContext(mem').agentPostIds = <<>>
            /\ getContext(mem').agentCommentIds = <<>>
            /\ getContext(mem').recentDecisions = <<>>
            /\ getContext(mem').recentAgentMemory = <<>>
            /\ mem'.lastSeenThreadIds = <<>>
            /\ mem'.lastSeenCommentIds = <<>>
            /\ \A id \in ThreadIds : ~isThreadSeen(mem', id)
            /\ \A id \in CommentIds : ~isCommentSeen(mem', id)
            /\ ~isClaimed(mem')]_vars

\* the file is absent, an agent id had been set on an earlier instance, and a
\* fresh instance has loaded: it is not claimed
C22_Witness ==
  /\ disk = <<>>
  /\ Len(hist.calls) >= 3
  /\ hist.calls[Len(hist.calls)].op = "load"
  /\ hist.calls[Len(hist.calls)].arg = "absent"
  /\ hist.calls[Len(hist.calls) - 1].op = "new"
  /\ hist.calls[Len(hist.calls) - 2].op = "setAgentId"
  /\ ~isClaimed(mem)

\* the file holds something that is no document
Malformed == disk # <<>> /\ disk[1] \in {Garbage, JsonNull}

Mutation(k) ==
  \/ hist.calls[k].op \in {"setAgentId", "setFirstPostAttempted", "addAgentPostContent"}
  \/ hist.calls[k].op \in {"markThreadSeen", "markCommentSeen"} /\ ~hist.calls[k].hit

\* the instance the client holds has been mutated since it was constructed
\* and since its last save() that succeeded
MutatedSinceSave ==
  \E k \in 1..Len(hist.calls) :
    /\ Mutation(k)
    /\ OnThisInstance(k)
    /\ \A j \in (k + 1)..Len(hist.calls) : ~Wrote(j)

\* C24: save() writes nothing when the state has not been mutated since the
\* last save() that succeeded, or since construction; otherwise it writes the
\* whole state and clears the dirty flag, and when the write fails the flag
\* stays set.
C24_SaveWhenDirty ==
  /\ [](dirty <=> MutatedSinceSave)
  /\ [][\A ok \in BOOLEAN :
          MemSave(ok) =>
            /\ mem' = mem
            /\ ~MutatedSinceSave => (disk' = disk /\ ~dirty')
            /\ (MutatedSinceSave /\ ok) => (disk' = <<mem>> /\ ~dirty')
            /\ (MutatedSinceSave /\ ~ok) => (disk' = disk /\ dirty')]_vars

\* a save failed and left the flag set, the next one wrote the file, and the
\* one after that found nothing to write
C24_Witness ==
  /\ Len(hist.calls) >= 3
  /\ LET n == Len(hist.calls)
     IN  /\ hist.calls[n].op = "save" /\ ~hist.calls[n].dirty
         /\ Wrote(n - 1)
         /\ hist.calls[n - 2].op = "save" /\ hist.calls[n - 2].dirty /\ ~hist.calls[n - 2].hit
  /\ disk = <<mem>>
  /\ isClaimed(mem)

C26_TickGuard ==
  /\ [][(proc = "running" /\ ~SchedulerStop)
          => (proc' = "running" /\ running' = running /\ intervalId' = intervalId)]_vars
  /\ (ticks # <<>>) ~> (ticks = <<>>)
  /\ \A n \in 1..(MaxTicks - 1) :
       (proc = "running" /\ hist.ticks = n) ~> (hist.ticks > n \/ ~running)

\* the first tick ended without its save (nothing on file tells of a tick),
\* and the second tick is under way and asks the oracle about a post
C26_Witness ==
  /\ running /\ intervalId
  /\ hist.ticks = 2
  /\ Len(ticks) = 1 /\ ticks[1].pc = "decide"
  /\ disk # <<>> /\ disk[1].lastTickAt = <<>>

\* the tick suspended in memory.load() returns from the catch block of the
\* load or from the isClaimed() guard
AbortsEarly(i) ==
  /\ At(i, "load")
  /\ \E ok \in BOOLEAN : TickLoad(i, ok) /\ (~ok \/ load(mem, disk).agentId = None)

\* C27: a tick that ends because memory.load() throws or because the agent
\* is not claimed returns at once: it never waits for the oracle or the
\* platform (not for the DM check either) or for the save, it leaves the seen
\* lists, recentDecisions, lastTickAt, the dirty flag, the file and the
\* policy as they were, and the scheduler stays as it was for the next tick.
C27_AbortedTick ==
  [][\A i \in Slots :
       AbortsEarly(i)
         => /\ ticks' = Remove(ticks, i)
            /\ hist' = hist
            /\ mem'.lastSeenThreadIds = mem.lastSeenThreadIds
            /\ mem'.lastSeenCommentIds = mem.lastSeenCommentIds
            /\ mem'.recentDecisions = mem.recentDecisions
            /\ mem'.lastTickAt = mem.lastTickAt
            /\ dirty' = dirty
            /\ disk' = disk
            /\ policy' = policy
            /\ recorded' = recorded
            /\ proc' = proc /\ running' = running /\ intervalId' = intervalId]_vars

\* the first tick ended in its memory.load() (no file, and the memory shows
\* no tick that reached its end), and the second tick has got to the oracle
C27_Witness ==
  /\ running /\ intervalId
  /\ hist.ticks = 2
  /\ Len(ticks) = 1 /\ ticks[1].pc = "decide"
  /\ disk = <<>>
  /\ mem.lastTickAt = <<>> /\ mem.lastSeenThreadIds = <<>>
  /\ ~hist.wrote

\* both ticks ended at the isClaimed() guard: the file names no agent
UnclaimedTicks ==
  /\ running /\ intervalId
  /\ hist.ticks = 2 /\ ticks = <<>>
  /\ ~isClaimed(mem)
  /\ mem.lastSeenThreadIds = <<"p1">>

\* the context decideAndExecute hands to policy.validate for the item of tick i
ValidateContext(i) ==
  [submoltId |-> ticks[i].submolt, threadId |-> Head(ticks[i].posts)]

\* decideAndExecute has got the post decision d from the oracle and Policy allows it
AllowedPost(i, d) ==
  /\ At(i, "decide")
  /\ TickDecide(i, d)
  /\ d.action = "post"
  /\ Validate(policy, d, ValidateContext(i), now).allowed

\* the duplicate gate or the rate gate holds for d
Gated(d) ==
  \/ d.content # <<>> /\ isDuplicatePost(mem, PostTitle(d), d.content[1])
  \/ RateLimited(mem, now)

\* the decision was returned with outcome blocked and nothing was sent
ReturnedBlocked(i, d) ==
  /\ ticks'[i].pc # "execute"
  /\ hist'.wrote = hist.wrote
  /\ hist'.last = [action |-> "post", outcome |-> "blocked", passed |-> FALSE]
  /\ mem'.recentDecisions # <<>>
  /\ mem'.recentDecisions[Len(mem'.recentDecisions)].decision = d
  /\ mem'.recentDecisions[Len(mem'.recentDecisions)].outcome = "blocked"
  /\ mem'.agentPostIds = mem.agentPostIds
  /\ recorded' = recorded

\* the decision went on: to the platform call, or it was returned as skipped
\* or executed
NotBlocked(i, d) ==
  \/ ticks'[i].pc = "execute" /\ ticks'[i].decision = d
  \/ /\ mem'.recentDecisions # <<>>
     /\ mem'.recentDecisions[Len(mem'.recentDecisions)].decision = d
     /\ mem'.recentDecisions[Len(mem'.recentDecisions)].outcome \in {"skipped", "executed"}

\* C28: a post decision that Policy allowed is returned as blocked, and not
\* executed, when isDuplicatePost holds for its title (given, or derived from
\* the content) and content or when lastPostAt is less than postInterval old;
\* otherwise it is not blocked at this point.
C28_PostGates ==
  [][\A i \in Slots, d \in GateDecisions :
       AllowedPost(i, d)
         => IF Gated(d) THEN ReturnedBlocked(i, d) ELSE NotBlocked(i, d)]_vars

\* the same for the post decisions that carry a non-empty content
C28_PostGatesWithContent ==
  [][\A i \in Slots, d \in GateDecisions :
       (AllowedPost(i, d) /\ Truthy(d.content))
         => IF Gated(d) THEN ReturnedBlocked(i, d) ELSE NotBlocked(i, d)]_vars

\* tick i is suspended in the call named by pc after the step and was not before
Enters(i, pc) ==
  /\ i \in 1..Len(ticks)
  /\ Len(ticks') = Len(ticks)
  /\ ticks[i].pc # pc
  /\ ticks'[i].pc = pc

LastPostIn(S) ==
  LET at == {recorded[k].at : k \in {j \in 1..Len(recorded) :
                                       /\ recorded[j].action = "post"
                                       /\ recorded[j].context.submoltId = S}}
  IN  IF at = {} THEN <<>> ELSE <<CHOOSE t \in at : \A u \in at : u <= t>>

\* S is in its cooldown at the present time
CoolingDown(S) ==
  LastPostIn(S) # <<>> /\ now < LastPostIn(S)[1] + cooldownPerSubmolt

\* a post decision with enough confidence, below the hourly cap, whose
\* content is not among the recent fingerprints
CooldownCase(d) ==
  /\ d.action = "post"
  /\ d.confidence >= confidenceThreshold
  /\ RecentPostCount(now) < maxPostsPerHour
  /\ ~(Truthy(d.content) /\ isRepetition(policy, d.content[1]))

\* C30, as stated: after recordAction("post", {submoltId: S}) at time t,
\* validate of a post decision for S (enough confidence, hourly cap not
\* reached, content not repeated) answers "submolt cooldown" at every time
\* before t + cooldownPerSubmolt and does not answer it from then on; a
\* record for another submolt changes nothing for S.
C30_SubmoltCooldown ==
  \A d \in CooldownDecisions, S \in Submolts :
    LET v == Validate(policy, d, [submoltId |-> S, threadId |-> "t1"], now)
    IN  CooldownCase(d)
          => IF CoolingDown(S) THEN v = Rejected("submolt cooldown")
             ELSE v.reason # "submolt cooldown"

\* C30, amended: the same for the post decisions whose content is not
\* longer than maxContentLength; outside the cooldown they are allowed.
C30_SubmoltCooldownWithinLength ==
  \A d \in CooldownDecisions, S \in Submolts :
    LET v == Validate(policy, d, [submoltId |-> S, threadId |-> "t1"], now)
    IN  (CooldownCase(d) /\ ~(Truthy(d.content) /\ Len(d.content[1]) > maxContentLength))
          => IF CoolingDown(S) THEN v = Rejected("submolt cooldown")
             ELSE v = Allowed

\* validate has just answered "submolt cooldown" for a submolt that was
\* posted to at the present time, while the other submolt, posted to
\* earlier, is out of its cooldown
C30_Witness ==
  /\ lastCall = [op |-> "validate", action |-> "post"]
  /\ verdict = Rejected("submolt cooldown")
  /\ \E S \in Submolts, T \in Submolts :
       /\ S # T
       /\ CoolingDown(S)
       /\ LastPostIn(T) # <<>> /\ ~CoolingDown(T)

\* C31: what a tick changed in memory is not lost when its save fails: when a
\* later save writes the file, the file holds every id that was marked seen.
C31_FailedSaveRetried ==
  [][\A i \in Slots :
       (At(i, "writeFile") /\ TickWriteFile(i, TRUE))
         => \A id \in hist.everSeen : Includes(disk'[1].lastSeenThreadIds, id)]_vars

\* the same while no file exists yet: load() finds nothing and keeps the state
C31_FailedSaveRetriedNoFile ==
  [][\A i \in Slots :
       (At(i, "writeFile") /\ TickWriteFile(i, TRUE) /\ disk = <<>>)
         => \A id \in hist.everSeen : Includes(disk'[1].lastSeenThreadIds, id)]_vars

Range(seq) == {seq[k] : k \in 1..Len(seq)}

\* the names the model chose that are names of listed submolts
ChosenListed(t) ==
  IF t.reply.kind = "json" THEN Range(t.reply.fetch) \cap Range(t.submolts) ELSE {}

\* C32: with a list of submolts that is not empty, the feeds fetched in the
\* tick are never none: all listed submolts when chooseSubmoltFeedsToFetch
\* threw or chose nothing that is listed, otherwise the listed submolts whose
\* names were chosen, in the order of the list.
C32_FeedsNeverEmpty ==
  \A i \in 1..Len(ticks) :
    ticks[i].pc = "getPosts"
      => LET t == ticks[i]
             chosen(name) == name \in ChosenListed(t)
         IN  /\ t.submoltsToFetch # <<>>
             /\ t.submoltsToFetch
                  = IF ChosenListed(t) = {} THEN t.submolts
                    ELSE SelectSeq(t.submolts, chosen)

\* the model named a submolt that is listed and one that is not; the feed of
\* the listed one alone is fetched
C32_Witness ==
  /\ Len(ticks) = 1 /\ ticks[1].pc = "getPosts"
  /\ ticks[1].submolts = <<"s1", "s2", "s3">>
  /\ ticks[1].reply = [kind |-> "json", fetch |-> <<"x", "s2">>]
  /\ ticks[1].submoltsToFetch = <<"s2">>

\* C33: runSearchAndProcess calls moltbook.search at most
\* MAX_SIMPLIFY_RETRIES + 1 times and llm.simplifySearchQuery at most
\* MAX_SIMPLIFY_RETRIES times; a search that resolves with a post result ends
\* the loop and its post results are processed; a search or a simplify that
\* throws ends the step with nothing processed; and the step always ends.
C33_SearchBounded ==
  /\ [](\A i \in 1..Len(ticks) :
          ticks[i].pc \in {"search", "simplify", "returned"}
            => /\ ticks[i].searches <= MAX_SIMPLIFY_RETRIES + 1
               /\ ticks[i].simplifies <= MAX_SIMPLIFY_RETRIES
               /\ ticks[i].searches = ticks[i].attempt + 1
                    \/ (ticks[i].pc = "returned" /\ ticks[i].searches = ticks[i].attempt))
  /\ [][\A results \in SearchResults :
          (SearchResolves(results) /\ \E k \in 1..Len(results) : results[k].type = "post")
            => /\ ticks'[1].pc = "returned"
               /\ ticks'[1].processed = PostResults(results)
               /\ ticks'[1].searches = ticks[1].searches
               /\ ticks'[1].simplifies = ticks[1].simplifies]_vars
  /\ [][(SearchFails \/ SimplifyFails)
          => /\ ticks'[1].pc = "returned"
             /\ ticks'[1].processed = <<>>
             /\ ticks'[1].searches = ticks[1].searches
             /\ ticks'[1].simplifies = ticks[1].simplifies]_vars
  /\ [][ticks[1].pc = "returned" => ticks' = ticks]_vars
  /\ (ticks[1].pc \in {"search", "simplify"}) ~> (ticks[1].pc = "returned")

\* three simplified queries found no post either: four searches, three
\* simplify calls, nothing processed
C33_Witness ==
  /\ Len(ticks) = 1 /\ ticks[1].pc = "returned"
  /\ ticks[1].searches = MAX_SIMPLIFY_RETRIES + 1
  /\ ticks[1].simplifies = MAX_SIMPLIFY_RETRIES
  /\ ticks[1].results = << [id |-> "c1", type |-> "comment"] >>
  /\ ticks[1].processed = <<>>

\* C34: every operation of the oracle client (decideAction,
\* chooseSubmoltsToSubscribe, chooseSubmoltFeedsToFetch, decideProactivePost,
\* decideExploreAction, simplifySearchQuery) returns only after a reply that
\* fits its schema, and after a reply that is no JSON or does not fit it asks
\* again, up to MAX_PARSE_RETRIES requests, before it throws.
C34_ValidatedWithRetries ==
  \A k \in 1..Len(pending) :
    LET call == pending[k]
    IN  /\ call.pc = "returned" => FitsSchema(call.op, call.reply)
        /\ (call.pc = "thrown" /\ call.reply.kind \in {"text", "invalid", "json"})
             => call.requests = MAX_PARSE_RETRIES

\* decideAction alone keeps to it
C34_DecideActionRetries ==
  \A k \in 1..Len(pending) :
    LET call == pending[k]
    IN  call.op = "decideAction"
          => /\ call.pc = "returned" => FitsSchema(call.op, call.reply)
             /\ (call.pc = "thrown" /\ call.reply.kind \in {"text", "invalid", "json"})
                  => call.requests = MAX_PARSE_RETRIES
             /\ call.requests > 1 => call.lastSchemaError # None
             /\ call.requests <= MAX_PARSE_RETRIES

\* no operation hands on what the model sent without the schema: a returned
\* value was parsed from a fitting reply, or it is the operation's own default
C34_NothingUnvalidatedReturned ==
  \A k \in 1..Len(pending) :
    LET call == pending[k]
    IN  (call.pc = "returned" /\ ~FitsSchema(call.op, call.reply))
          => /\ call.op \notin {"decideAction", "chooseSubmoltsToSubscribe"}
             /\ call.result.value = Operation(call.op, [kind |-> "empty"]).value

\* a fetch that failed in a way request may try again: no response, 5xx or 429
Transient(outcome) ==
  \/ outcome.kind = "reject"
  \/ outcome.status >= 500
  \/ outcome.status = 429

\* C35: MoltbookClient.request makes at most MAX_RETRIES fetches for a call;
\* every fetch but the last one ended without a response or with a 5xx or a
\* 429, and was followed by a wait of 1000 ms, then 2000 ms; any other error
\* status and a body with success false throw at once; after the last failed
\* attempt it throws a MoltbookClientError; and the call always ends.
C35_BoundedRetries ==
  /\ [](\A k \in 1..Len(pending) :
          LET call == pending[k]
              n    == Len(call.outcomes)
          IN  call.op = "request"
                => /\ n <= MAX_RETRIES
                   /\ \A j \in 1..(n - 1) : Transient(call.outcomes[j])
                   /\ call.pc = "sleep" => Transient(call.outcomes[n]) /\ n < MAX_RETRIES
                   /\ call.slept = SubSeq(<<INITIAL_BACKOFF_MS, 2 * INITIAL_BACKOFF_MS>>, 1,
                                          IF call.pc = "fetch" THEN n ELSE n - 1)
                   /\ call.pc = "returned"
                        => /\ Ok(call.outcomes[n].status)
                           /\ call.outcomes[n].body.success # <<FALSE>>
                   /\ call.pc = "thrown"
                        => /\ Len(call.lastError) = 1
                           /\ \/ n = MAX_RETRIES
                              \/ ~Transient(call.outcomes[n])
                   /\ (call.pc \in {"returned", "thrown"} /\ n < MAX_RETRIES)
                        => ~Transient(call.outcomes[n]))
  /\ (Len(pending) = 1 /\ pending[1].pc \in {"fetch", "sleep"})
       ~> (Len(pending) = 1 /\ pending[1].pc \in {"returned", "thrown"})

\* a rejected fetch, a 503 and a 429: three fetches, waits of 1000 and 2000
\* ms, and the error of the last response thrown
C35_Witness ==
  /\ Len(pending) = 1 /\ pending[1].op = "request" /\ pending[1].pc = "thrown"
  /\ Len(pending[1].outcomes) = MAX_RETRIES
  /\ pending[1].outcomes[1].kind = "reject"
  /\ pending[1].outcomes[2].status = 503
  /\ pending[1].outcomes[3].status = 429
  /\ pending[1].slept = <<1000, 2000>>
  /\ pending[1].lastError = << MoltbookClientError("res.statusText", 429) >>

\* C36: in one process lifetime the comments the scheduler has posted to a
\* thread, each counted by recordAction under the thread it was posted to,
\* never exceed maxCommentsPerThread, whatever thread the decisions target.
C36_CommentsPerThread ==
  \A T \in DOMAIN policy.commentsByThread :
    policy.commentsByThread[T] <= maxCommentsPerThread

\* the same for the thread of the post being processed, which is the one
\* validate counts for
C36_CommentsPerProcessedThread ==
  \A T \in DOMAIN policy.commentsByThread :
    T = "p1" => policy.commentsByThread[T] <= maxCommentsPerThread

\* decideAndExecute returned d as executed in this step without a platform call
ExecutedUnsent(i, d) ==
  /\ At(i, "decide")
  /\ TickDecide(i, d)
  /\ Len(ticks') >= i /\ ticks'[i].pc # "execute"
  /\ mem'.recentDecisions # <<>>
  /\ mem'.recentDecisions[Len(mem'.recentDecisions)].decision = d
  /\ mem'.recentDecisions[Len(mem'.recentDecisions)].outcome = "executed"

\* C37: decideAndExecute returns outcome "executed" only from a platform
\* write call (postPost, postComment or vote) that it issued for the decision
\* and that resolved; no decision, and no post or comment decision without
\* content in particular, is returned as executed without such a call.
C37_ExecutedAfterWrite ==
  [][\A i \in Slots, d \in GateDecisions : ~ExecutedUnsent(i, d)]_vars

\* the same for the decisions that carry a non-empty content
C37_ExecutedAfterWriteWithContent ==
  [][\A i \in Slots, d \in GateDecisions : Truthy(d.content) => ~ExecutedUnsent(i, d)]_vars

\* the item a tick is asking the oracle about
ItemId(t) == IF t.item = "post" THEN Head(t.posts) ELSE Head(t.comments)

\* decideAction throws for the item of tick i: the item is marked seen, no
\* decision is saved, nothing is sent or recorded, and the tick goes on with
\* the comments of the post, or with what follows the comment
FailedItemPassed(i) ==
  (At(i, "decide") /\ TickDecideFails(i))
    => LET t  == ticks[i]
           id == ItemId(t)
       IN  /\ IF t.item = "post" THEN isThreadSeen(mem', id) ELSE isCommentSeen(mem', id)
           /\ mem'.recentDecisions = mem.recentDecisions
           /\ recorded' = recorded
           /\ hist'.wrote = hist.wrote
           /\ Len(ticks') = Len(ticks)
           /\ t.item = "post" => ticks'[i].pc = "comments" /\ ticks'[i].posts = t.posts
           /\ t.item = "comment"
                => \/ ticks'[i].pc = "decide" /\ ItemId(ticks'[i]) # id
                   \/ ticks'[i].pc # "decide"

\* C38 as stated: when decideAction fails for a post or a comment the item is
\* still marked seen and no decision is recorded for it, the tick continues
\* with the post's comments and the next item, and the oracle is never asked
\* about the item again.
C38_FailedItemNeverAsked ==
  /\ [][\A i \in Slots : FailedItemPassed(i)]_vars
  /\ [](hist.redecided = {})

\* C38 amended: the same, and the oracle is not asked about the item again
\* while its id is in the seen list.
C38_FailedItemSeen ==
  /\ [][\A i \in Slots : FailedItemPassed(i)]_vars
  /\ [](hist.decidedSeen = {})

\* decideAction failed for p1, nothing was recorded, and p1 came up again in
\* a later feed and was skipped as seen
C38_Witness ==
  /\ "p1" \in hist.skipped
  /\ isThreadSeen(mem, "p1")
  /\ mem.recentDecisions = <<>>
  /\ hist.ticks >= 2

\* C39: once main has loaded the memory, whenever dirty is false the memory
\* file holds the state that is in memory, also when the state is changed
\* while save() awaits its write, and when load() replaces the state while
\* changes are unsaved.
C39_CleanMeansSaved ==
  (proc \notin {"boot", "down"} /\ ~dirty /\ disk # <<>>) => Parsed(disk[1]) = mem

\* the calls of acquire that completed in the minute that ends at t
CompletedInMinute(t) ==
  Cardinality({k \in 1..Len(ticks[1].completed) :
                 ticks[1].completed[k] > t - Minute /\ ticks[1].completed[k] <= t})

\* C40: whatever callers call acquire(), together or one after another, no
\* more than maxCallsPerMinute calls complete within any minute; a caller that
\* finds maxCallsPerMinute calls in the last minute does not complete, waits
\* until the oldest of them is a minute old, and is admitted only by a check
\* it makes again after that wait.
C40_CallsPerMinute ==
  /\ [](\A t \in 0..(MaxTime + 1) : CompletedInMinute(t) <= maxCallsPerMinute)
  /\ [][(Acquire /\ Len(FilterLastMinute(timestamps, now)) >= maxCallsPerMinute)
          => /\ ticks'[1].completed = ticks[1].completed
             /\ pending' = Append(pending, [op |-> "acquire",
                                            wakeAt |-> FilterLastMinute(timestamps, now)[1] + Minute])]_vars
  /\ [][\A k \in 1..MaxWaiting :
          (TimerFires(k) /\ ticks'[1].completed # ticks[1].completed)
            => /\ now >= pending[k].wakeAt
               /\ Len(FilterLastMinute(timestamps, now)) < maxCallsPerMinute]_vars

\* a caller found the minute full, waited, and was admitted when the oldest
\* call had left the minute
C40_Witness ==
  /\ Len(ticks) = 1 /\ ticks[1].pc = "limiter"
  /\ ticks[1].waits >= 1
  /\ pending = <<>>
  /\ Len(ticks[1].completed) = maxCallsPerMinute + 1
  /\ CompletedInMinute(now) = maxCallsPerMinute

====
